---- MODULE Spec2Model ----
(***************************************************************************)
(* Shellsword: the session / matchmaking engine of src/auto-player.js.     *)
(*                                                                         *)
(* The server is single threaded: every request handler and every timer    *)
(* callback runs to completion.  Each handler is written as an operator    *)
(* from the server state (a record S with one field per module-level       *)
(* variable of the program, plus the durable tables) to the state after    *)
(* the handler; an action applies one handler to the current state.        *)
(*                                                                         *)
(* Conventions for JavaScript values:                                      *)
(*   null              the string "null"                                   *)
(*   undefined string  the string "undefined"                              *)
(*   undefined token   0 (tokens are the positive numbers)                 *)
(*   undefined number  the empty sequence, a number n is <<n>>             *)
(*   the arrow in the narratives is written "->"                           *)
(***************************************************************************)
EXTENDS Integers, Sequences, FiniteSets, TLC

----------------------------------------------------------------------------
(* Program constants *)

StartDistance == 4
DefaultMaxTurns == 30
WinScore == 3
MinDistance == 1
MaxDistance == 6
QUEUE_TIMEOUT_MS == 300000
ArchiveLimit == 100

validMoves == {"advance", "retreat", "lunge", "parry"}

validateMove(move) == move \in validMoves

Max(a, b) == IF a > b THEN a ELSE b
Min(a, b) == IF a < b THEN a ELSE b

----------------------------------------------------------------------------
(* Game logic *)

createGame(id) ==
  [ id |-> id,
    phase |-> "input",
    turn |-> 0,
    distance |-> StartDistance,
    scores |-> [p1 |-> 0, p2 |-> 0],
    moves |-> [p1 |-> "null", p2 |-> "null"],
    lastResult |-> "",
    winner |-> "null",
    p1Name |-> "",
    p2Name |-> "",
    turnTimer |-> FALSE,
    moveWaiters |-> <<>>,
    maxTurns |-> <<DefaultMaxTurns>>,
    \* fields createGame leaves undefined
    p1Token |-> 0,
    p2Token |-> 0,
    botDifficulty |-> "undefined",
    botSide |-> "undefined",
    exhibition |-> FALSE,
    botP1Difficulty |-> "undefined",
    botP2Difficulty |-> "undefined",
    p1 |-> 0,
    p2 |-> 0,
    \* callbacks that close over this game object (not fields of the object)
    botTimers |-> 0,
    exTimer |-> FALSE ]

\* A faulty applyOther: a retreat is not held at the end of the strip
applyOtherUnclamped(other, d) ==
  IF other = "advance" THEN Max(MinDistance, d - 1)
  ELSE IF other = "retreat" THEN d + 1
  ELSE d

\* A faulty movement: the move of the other player is not applied
applyOtherIgnored(other, d) == d

\* "Apply other player's movement": lines 673-674, 681-682, 694-695
applyOther(other, d) ==
  IF other = "advance" THEN Max(MinDistance, d - 1)
  ELSE IF other = "retreat" THEN Min(MaxDistance, d + 1)
  ELSE d

\* movements.join(', ') of the movement-only branch
movementText(p1Move, p2Move) ==
  LET a == IF p1Move = "advance" THEN <<"P1 advances">> ELSE <<>>
      b == IF p2Move = "advance" THEN <<"P2 advances">> ELSE <<>>
      c == IF p1Move = "retreat" THEN <<"P1 retreats">> ELSE <<>>
      d == IF p2Move = "retreat" THEN <<"P2 retreats">> ELSE <<>>
      movements == a \o b \o c \o d
  IN IF Len(movements) = 0 THEN "Both fencers stay in position."
     ELSE IF Len(movements) = 1 THEN movements[1] \o "."
     ELSE movements[1] \o ", " \o movements[2] \o "."

\* A faulty reset: the distance is never reset
resetDistanceNever(raw) == raw

\* A faulty reset: the distance is reset whenever anyone has scored
resetDistanceAnyScore(raw) ==
  IF raw.scoreP1 \/ raw.scoreP2
  THEN [raw EXCEPT !.newDistance = StartDistance,
                   !.result = raw.result \o " Distance resets to 4."]
  ELSE raw

\* "Reset distance if someone scored (except double hit)"
resetDistance(raw) ==
  IF (raw.scoreP1 \/ raw.scoreP2) /\ ~(raw.scoreP1 /\ raw.scoreP2)
  THEN [raw EXCEPT !.newDistance = StartDistance,
                   !.result = raw.result \o " Distance resets to 4."]
  ELSE raw

\* "Calculate distance change" of the movement branch
distanceChange(p1Move, p2Move) ==
    (IF p1Move = "advance" THEN -1 ELSE 0)
  + (IF p1Move = "retreat" THEN 1 ELSE 0)
  + (IF p2Move = "advance" THEN -1 ELSE 0)
  + (IF p2Move = "retreat" THEN 1 ELSE 0)

\* A faulty movement: the sum is taken as it is
movedDistanceUnclamped(p1Move, p2Move, distance) ==
  distance + distanceChange(p1Move, p2Move)

\* Math.max(1, Math.min(6, distance + distanceChange))
movedDistance(p1Move, p2Move, distance) ==
  Max(MinDistance, Min(MaxDistance, distance + distanceChange(p1Move, p2Move)))

\* The branches of resolveTurn on the two moves: the distance, who scores
\* and the narrative, before the reset of the distance
branchOutcome(p1Move, p2Move, distance, hit) ==
  LET lunger == IF p1Move = "lunge" THEN "P1" ELSE "P2"
      lother == IF p1Move = "lunge" THEN p2Move ELSE p1Move
      lotherPlayer == IF p1Move = "lunge" THEN "P2" ELSE "P1"
      parryer == IF p1Move = "parry" THEN "P1" ELSE "P2"
      pother == IF p1Move = "parry" THEN p2Move ELSE p1Move
      potherPlayer == IF p1Move = "parry" THEN "P2" ELSE "P1"
      moved == movedDistance(p1Move, p2Move, distance)
  IN
    IF p1Move = "lunge" /\ p2Move = "lunge" /\ distance = 1
    THEN [newDistance |-> distance, scoreP1 |-> TRUE, scoreP2 |-> TRUE,
          result |-> "Both fencers lunge simultaneously at close range -> DOUBLE HIT!"]
    ELSE IF (p1Move = "lunge" /\ p2Move = "parry") \/ (p1Move = "parry" /\ p2Move = "lunge")
    THEN IF p1Move = "lunge" /\ p2Move = "parry"
         THEN [newDistance |-> distance, scoreP1 |-> FALSE, scoreP2 |-> TRUE,
               result |-> "P1 lunges -> P2 PARRIES -> RIPOSTE! P2 scores."]
         ELSE [newDistance |-> distance, scoreP1 |-> TRUE, scoreP2 |-> FALSE,
               result |-> "P2 lunges -> P1 PARRIES -> RIPOSTE! P1 scores."]
    ELSE IF p1Move = "lunge" \/ p2Move = "lunge"
    THEN IF distance = 1
         THEN [newDistance |-> distance,
               scoreP1 |-> (p1Move = "lunge"), scoreP2 |-> (p1Move # "lunge"),
               result |-> lunger \o " lunges at close range -> HIT! " \o lunger \o " scores."]
         ELSE IF distance = 2
         THEN IF hit
              THEN [newDistance |-> distance,
                    scoreP1 |-> (p1Move = "lunge"), scoreP2 |-> (p1Move # "lunge"),
                    result |-> lunger \o " lunges at medium range -> CLOSE HIT! "
                               \o lunger \o " scores."]
              ELSE [newDistance |-> applyOther(lother, distance),
                    scoreP1 |-> FALSE, scoreP2 |-> FALSE,
                    result |-> lunger \o " lunges at medium range -> miss! "
                               \o lotherPlayer \o " " \o lother \o "."]
         ELSE [newDistance |-> applyOther(lother, Max(MinDistance, distance - 1)),
               scoreP1 |-> FALSE, scoreP2 |-> FALSE,
               result |-> lunger \o " lunges at long range -> WHIFF! " \o lunger
                          \o " is exposed. " \o lotherPlayer \o " gets free advance."]
    ELSE IF (p1Move = "parry" /\ p2Move # "lunge") \/ (p2Move = "parry" /\ p1Move # "lunge")
    THEN [newDistance |-> applyOther(pother, distance),
          scoreP1 |-> FALSE, scoreP2 |-> FALSE,
          result |-> parryer \o " parries nothing (wasted turn). "
                     \o potherPlayer \o " " \o pother \o "."]
    ELSE IF p1Move = "advance" /\ p2Move = "advance" /\ moved <= 1
    THEN [newDistance |-> 1, scoreP1 |-> FALSE, scoreP2 |-> FALSE,
          result |-> "Both fencers advance -> CLASH! Distance stays at 1."]
    ELSE [newDistance |-> moved, scoreP1 |-> FALSE, scoreP2 |-> FALSE,
          result |-> movementText(p1Move, p2Move)]

\* The outcome of one pair of moves, before it is applied to the game:
\* the locals newDistance, result, scoreP1, scoreP2 of resolveTurn.
\* hit is the draw Math.random() < 0.5 of the distance-2 lunge.
turnOutcome(p1Move, p2Move, distance, hit) ==
  resetDistance(branchOutcome(p1Move, p2Move, distance, hit))

\* game.turn >= game.maxTurns; a comparison with undefined is false
turnLimitReached(turn, maxTurns) ==
  IF maxTurns = <<>> THEN FALSE ELSE turn >= maxTurns[1]

\* A faulty applyTurn: the second fencer wins only past the winning score
applyTurnLateWin(game, o) ==
  LET s1 == IF o.scoreP1 THEN game.scores.p1 + 1 ELSE game.scores.p1
      s2 == IF o.scoreP2 THEN game.scores.p2 + 1 ELSE game.scores.p2
      t == game.turn + 1
      g1 == [game EXCEPT !.scores = [p1 |-> s1, p2 |-> s2],
                         !.distance = o.newDistance,
                         !.turn = t,
                         !.lastResult = o.result,
                         !.moves = [p1 |-> "null", p2 |-> "null"]]
  IN IF s1 >= WinScore /\ s2 >= WinScore
     THEN [g1 EXCEPT !.winner = "sudden_death", !.phase = "over"]
     ELSE IF s1 >= WinScore
     THEN [g1 EXCEPT !.winner = "p1", !.phase = "over"]
     ELSE IF s2 > WinScore
     THEN [g1 EXCEPT !.winner = "p2", !.phase = "over"]
     ELSE IF turnLimitReached(t, game.maxTurns)
     THEN [g1 EXCEPT !.winner = IF s1 > s2 THEN "p1"
                                ELSE IF s2 > s1 THEN "p2" ELSE "sudden_death",
                     !.phase = "over"]
     ELSE g1

\* "Update game state" and "Check win conditions" of resolveTurn: the game
\* after outcome o is applied to it
applyTurn(game, o) ==
  LET s1 == IF o.scoreP1 THEN game.scores.p1 + 1 ELSE game.scores.p1
      s2 == IF o.scoreP2 THEN game.scores.p2 + 1 ELSE game.scores.p2
      t == game.turn + 1
      g1 == [game EXCEPT !.scores = [p1 |-> s1, p2 |-> s2],
                         !.distance = o.newDistance,
                         !.turn = t,
                         !.lastResult = o.result,
                         !.moves = [p1 |-> "null", p2 |-> "null"]]
  IN IF s1 >= WinScore /\ s2 >= WinScore
     THEN [g1 EXCEPT !.winner = "sudden_death", !.phase = "over"]
     ELSE IF s1 >= WinScore
     THEN [g1 EXCEPT !.winner = "p1", !.phase = "over"]
     ELSE IF s2 >= WinScore
     THEN [g1 EXCEPT !.winner = "p2", !.phase = "over"]
     ELSE IF turnLimitReached(t, game.maxTurns)
     THEN [g1 EXCEPT !.winner = IF s1 > s2 THEN "p1"
                                ELSE IF s2 > s1 THEN "p2" ELSE "sudden_death",
                     !.phase = "over"]
     ELSE g1

\* resolveTurn(game): the game after the turn; the returned log is its lastResult
resolveTurn(game, hit) ==
  applyTurn(game, turnOutcome(game.moves.p1, game.moves.p2, game.distance, hit))

\* getGameState(game, playerId): the view handed to a player (and to botMove)
getGameState(game, playerId) ==
  [ turn |-> game.turn,
    distance |-> game.distance,
    score |-> IF playerId = "p1" THEN game.scores.p1 ELSE game.scores.p2,
    oppScore |-> IF playerId = "p1" THEN game.scores.p2 ELSE game.scores.p1,
    lastResult |-> game.lastResult,
    validMoves |-> validMoves,
    phase |-> game.phase,
    winner |-> game.winner,
    maxTurns |-> game.maxTurns ]

\* compactState(game, playerId): the lines of the text, each as its parts;
\* playerId is "p1", "p2" or "spectator"
compactState(game, playerId) ==
  LET state == getGameState(game, playerId)
      endMsg == IF state.winner = "p1" /\ playerId = "p1" THEN "You WIN!"
                ELSE IF state.winner = "p2" /\ playerId = "p2" THEN "You WIN!"
                ELSE IF state.winner = "sudden_death" THEN "SUDDEN DEATH required!"
                ELSE "You lose."
  IN <<[touch |-> <<state.score, state.oppScore>>, dist |-> state.distance,
        turn |-> state.turn, maxTurns |-> state.maxTurns]>>
     \o (IF state.lastResult # "" THEN <<[last |-> state.lastResult]>> ELSE <<>>)
     \o <<[valid |-> state.validMoves]>>
     \o (IF state.phase = "over" THEN <<[gameOver |-> endMsg]>> ELSE <<>>)

----------------------------------------------------------------------------
(* Bot AI *)

\* A draw of Math.random(), as floor(100 * draw): one representative for
\* each interval between the thresholds the program compares draws with
\* (0.25, 0.3, 0.4, 0.5, 0.6, 0.7, 0.75, 0.8).
Draws == {10, 27, 35, 45, 55, 65, 72, 77, 90}

\* moves[Math.floor(Math.random() * moves.length)] of the easy bot
easyPick(r) ==
  IF r < 25 THEN "advance" ELSE IF r < 50 THEN "retreat"
  ELSE IF r < 75 THEN "lunge" ELSE "parry"

\* botMove(state, difficulty) with its first and second draw
botMove(state, difficulty, r1, r2) ==
  IF difficulty = "easy" THEN easyPick(r1)
  ELSE IF difficulty = "medium" THEN
    IF state.distance = 1 THEN (IF r1 < 70 THEN "lunge" ELSE "parry")
    ELSE IF state.distance = 2
    THEN (IF r1 < 40 THEN "lunge" ELSE IF r2 < 50 THEN "advance" ELSE "parry")
    ELSE (IF r1 < 60 THEN "advance" ELSE "retreat")
  ELSE IF difficulty = "hard" THEN
    IF state.distance = 1 THEN (IF r1 < 80 THEN "lunge" ELSE "parry")
    ELSE IF state.distance = 2
    THEN IF state.score < state.oppScore
         THEN (IF r1 < 60 THEN "lunge" ELSE "advance")
         ELSE (IF r1 < 30 THEN "lunge" ELSE IF r2 < 40 THEN "advance" ELSE "parry")
    ELSE (IF r1 < 75 THEN "advance" ELSE "retreat")
  ELSE "advance"

\* every move botMove can return for this view and difficulty
botMoves(state, difficulty) ==
  {botMove(state, difficulty, r1, r2) : r1 \in Draws, r2 \in Draws}

\* game.botSide || 'p2'
botSideOf(game) == IF game.botSide = "undefined" THEN "p2" ELSE game.botSide

\* game.botDifficulty is truthy
isBotGame(game) == game.botDifficulty # "undefined" /\ game.botDifficulty # ""

----------------------------------------------------------------------------
(* Server state.  S is a record with the fields                            *)
(*   games, players, queue, completedGames, gameIdCounter   the program's  *)
(*        module-level variables (lines 502-508)                           *)
(*   joinPolls     tokens whose blocking join still polls (pollInterval)   *)
(*   dbGames, dbQueue   the tables games and queue_entries                 *)
(*   tokenCounter  the tokens genToken has handed out so far               *)
(*   now           Date.now()                                              *)

\* Session ids are <<prefix, number>>: `g${n}`, `bot_${n}`, 'ex_' + n
gameId(prefix, n) == <<prefix, n>>

\* id.match(/^g(\d+)$/) ? parseInt(match[1]) : 0
idNumber(id) == IF id[1] = "g" THEN id[2] ELSE 0

\* name || fallback
orElse(name, fallback) == IF name = "" \/ name = "undefined" THEN fallback ELSE name

\* JSON.stringify({...}) of saveGameToDB and JSON.parse of the loaders: the
\* listed properties survive with their values (an undefined property is
\* left out and reads back undefined); nothing else of the game is kept.
stateJsonOf(game) ==
  [ distance |-> game.distance,
    scores |-> game.scores,
    moves |-> game.moves,
    lastResult |-> game.lastResult,
    maxTurns |-> game.maxTurns,
    botDifficulty |-> game.botDifficulty,
    botSide |-> game.botSide,
    exhibition |-> game.exhibition,
    botP1Difficulty |-> game.botP1Difficulty,
    botP2Difficulty |-> game.botP2Difficulty,
    p1Token |-> game.p1Token,
    p2Token |-> game.p2Token,
    p1 |-> game.p1,
    p2 |-> game.p2 ]

\* A faulty save: a row that exists is left as it is
saveGameToDBOnce(db, game, now) ==
  IF game.id \in DOMAIN db THEN db
  ELSE (game.id :> [ id |-> game.id,
                     p1_name |-> orElse(game.p1Name, "P1"),
                     p2_name |-> orElse(game.p2Name, "P2"),
                     state_json |-> stateJsonOf(game),
                     turn |-> game.turn,
                     phase |-> game.phase,
                     winner |-> game.winner,
                     created_at |-> now,
                     updated_at |-> now ]) @@ db

\* A faulty save: the UPDATE counts up the column turn instead of setting it
saveGameToDBCounting(db, game, now) ==
  IF game.id \in DOMAIN db
  THEN [db EXCEPT ![game.id] =
          [@ EXCEPT !.state_json = stateJsonOf(game),
                    !.turn = @ + 1,
                    !.phase = game.phase,
                    !.winner = game.winner,
                    !.updated_at = now]]
  ELSE (game.id :> [ id |-> game.id,
                     p1_name |-> orElse(game.p1Name, "P1"),
                     p2_name |-> orElse(game.p2Name, "P2"),
                     state_json |-> stateJsonOf(game),
                     turn |-> game.turn,
                     phase |-> game.phase,
                     winner |-> game.winner,
                     created_at |-> now,
                     updated_at |-> now ]) @@ db

\* saveGameToDB(game): UPDATE the row of game.id, INSERT it when there is none
saveGameToDB(db, game, now) ==
  IF game.id \in DOMAIN db
  THEN [db EXCEPT ![game.id] =
          [@ EXCEPT !.state_json = stateJsonOf(game),
                    !.turn = game.turn,
                    !.phase = game.phase,
                    !.winner = game.winner,
                    !.updated_at = now]]
  ELSE (game.id :> [ id |-> game.id,
                     p1_name |-> orElse(game.p1Name, "P1"),
                     p2_name |-> orElse(game.p2Name, "P2"),
                     state_json |-> stateJsonOf(game),
                     turn |-> game.turn,
                     phase |-> game.phase,
                     winner |-> game.winner,
                     created_at |-> now,
                     updated_at |-> now ]) @@ db

\* loadGameFromDB(row)
loadGameFromDB(row) ==
  LET state == row.state_json IN
  [ createGame(row.id) EXCEPT
      !.p1Name = row.p1_name,
      !.p2Name = row.p2_name,
      !.turn = row.turn,
      !.phase = row.phase,
      !.winner = row.winner,
      !.distance = state.distance,
      !.scores = state.scores,
      !.moves = state.moves,
      !.lastResult = state.lastResult,
      !.maxTurns = IF state.maxTurns = <<>> THEN <<DefaultMaxTurns>> ELSE state.maxTurns,
      !.botDifficulty = state.botDifficulty,
      !.botSide = state.botSide,
      !.exhibition = state.exhibition,
      !.botP1Difficulty = state.botP1Difficulty,
      !.botP2Difficulty = state.botP2Difficulty,
      !.p1Token = state.p1Token,
      !.p2Token = state.p2Token,
      !.p1 = state.p1,
      !.p2 = state.p2,
      !.moveWaiters = <<>>,
      !.turnTimer = FALSE ]

\* saveQueueToDB(entry): INSERT INTO queue_entries
saveQueueToDB(dbq, entry) ==
  Append(dbq, [name |-> entry.name, token |-> entry.token, ip |-> entry.ip,
               created_at |-> entry.timestamp])

\* removeFromQueueDB(token): DELETE FROM queue_entries WHERE token = ?
removeFromQueueDB(dbq, token) == SelectSeq(dbq, LAMBDA r : r.token # token)

\* `${game.scores.p1}-${game.scores.p2}`
finalScoreOf(scores) == ToString(scores.p1) \o "-" \o ToString(scores.p2)

\* archiveGame(game)
archiveGame(completed, game, now) ==
  LET pushed == Append(completed,
                  [ id |-> game.id,
                    winner |-> game.winner,
                    turns |-> game.turn,
                    p1Name |-> orElse(game.p1Name, "P1"),
                    p2Name |-> orElse(game.p2Name, "P2"),
                    finalScore |-> finalScoreOf(game.scores),
                    timestamp |-> now ])
  IN IF Len(pushed) > ArchiveLimit THEN Tail(pushed) ELSE pushed

\* startTurnTimer(gameId) on a game object: arms a timeout in phase input
startTurnTimer(game) ==
  IF game.phase # "input" THEN game ELSE [game EXCEPT !.turnTimer = TRUE]

\* A faulty end of resolveIfReady: the waiters stay in the list
finishTurnKeepsWaiters(S, id, resolved) ==
  LET timed == IF resolved.phase # "over" THEN startTurnTimer(resolved) ELSE resolved
      completed == IF resolved.phase # "over" THEN S.completedGames
                   ELSE archiveGame(S.completedGames, resolved, S.now)
      db == saveGameToDB(S.dbGames, timed, S.now)
      after == IF isBotGame(timed) /\ timed.phase = "input"
               THEN [timed EXCEPT !.botTimers = @ + 1] ELSE timed
  IN [S EXCEPT !.games = [@ EXCEPT ![id] = after],
               !.completedGames = completed,
               !.dbGames = db]

\* A faulty order: the waiters are notified right after resolveTurn, before
\* the timer is re-armed and the game saved
notifiedAtEarly(S, id, resolved) == [S EXCEPT !.games[id] = resolved]

\* resolveIfReady at the moment it notifies the waiters and the
\* subscribers: the turn is resolved, the timer re-armed or the game
\* archived, and the game saved
notifiedAt(S, id, resolved) ==
  LET timed == IF resolved.phase # "over" THEN startTurnTimer(resolved) ELSE resolved
      completed == IF resolved.phase # "over" THEN S.completedGames
                   ELSE archiveGame(S.completedGames, resolved, S.now)
  IN [S EXCEPT !.games[id] = timed,
               !.completedGames = completed,
               !.dbGames = saveGameToDB(S.dbGames, timed, S.now)]

\* resolveIfReady(gameId) after resolveTurn: timer, archive, save, then the
\* waiters are resolved and the list emptied, then the bot follow-up is set
finishTurnFrom(N, id) ==
  LET woken == [N.games[id] EXCEPT !.moveWaiters = <<>>]
      \* bot follow-up: one more pending timeout that closes over the game
      after == IF isBotGame(woken) /\ woken.phase = "input"
               THEN [woken EXCEPT !.botTimers = @ + 1] ELSE woken
  IN [N EXCEPT !.games[id] = after]

finishTurn(S, id, resolved) == finishTurnFrom(notifiedAt(S, id, resolved), id)

\* A faulty resolveIfReady: it does not look at the phase
resolveIfReadyAnyPhase(S, id, hit) ==
  IF id \notin DOMAIN S.games THEN S
  ELSE IF S.games[id].moves.p1 = "null" \/ S.games[id].moves.p2 = "null" THEN S
  ELSE finishTurn(S, id, resolveTurn([S.games[id] EXCEPT !.turnTimer = FALSE], hit))

\* A faulty resolveIfReady: it does not wait for both moves
resolveIfReadyEager(S, id, hit) ==
  IF id \notin DOMAIN S.games THEN S
  ELSE IF S.games[id].phase # "input" THEN S
  ELSE finishTurn(S, id, resolveTurn([S.games[id] EXCEPT !.turnTimer = FALSE], hit))

\* resolveIfReady(gameId); hit is the draw resolveTurn may take.  resolved
\* is the game resolveTurn leaves, computed once.
resolveIfReady(S, id, hit) ==
  IF id \notin DOMAIN S.games THEN S
  ELSE IF S.games[id].phase # "input" THEN S
  ELSE IF S.games[id].moves.p1 = "null" \/ S.games[id].moves.p2 = "null" THEN S
  ELSE CHOOSE T \in {finishTurn(S, id, resolved) :
                       resolved \in {resolveTurn([S.games[id] EXCEPT !.turnTimer = FALSE], hit)}} :
         TRUE

\* A faulty pairing: the sides of the two players are exchanged
matchPlayersSwapped(S, token1, name1, token2, name2) ==
  LET id == gameId("g", S.gameIdCounter)
      game == startTurnTimer(
                [createGame(id) EXCEPT !.phase = "input",
                                       !.p1Token = token2,
                                       !.p2Token = token1,
                                       !.p1Name = name2,
                                       !.p2Name = name1,
                                       !.moveWaiters = <<>>])
  IN [S EXCEPT !.gameIdCounter = @ + 1,
               !.games = (id :> game) @@ @,
               !.players = (token2 :> [gameId |-> id, playerId |-> "p1", name |-> name2])
                           @@ ((token1 :> [gameId |-> id, playerId |-> "p2", name |-> name1])
                           @@ @),
               !.dbGames = saveGameToDB(@, game, S.now)]

\* matchPlayers(token1, name1, token2, name2): the state after it; the new
\* id is gameId("g", S.gameIdCounter)
matchPlayers(S, token1, name1, token2, name2) ==
  LET id == gameId("g", S.gameIdCounter)
      game == startTurnTimer(
                [createGame(id) EXCEPT !.phase = "input",
                                       !.p1Token = token1,
                                       !.p2Token = token2,
                                       !.p1Name = name1,
                                       !.p2Name = name2,
                                       !.moveWaiters = <<>>])
  IN [S EXCEPT !.gameIdCounter = @ + 1,
               !.games = (id :> game) @@ @,
               !.players = (token1 :> [gameId |-> id, playerId |-> "p1", name |-> name1])
                           @@ ((token2 :> [gameId |-> id, playerId |-> "p2", name |-> name2])
                           @@ @),
               !.dbGames = saveGameToDB(@, game, S.now)]

----------------------------------------------------------------------------
(* Request handlers and callbacks *)

\* genToken(): a token never handed out before
genToken(S) == S.tokenCounter

\* A faulty cleaning: at most one stale entry is removed
purgeStaleOne(queue, dbq, now) ==
  IF Len(queue) > 0 /\ now - Head(queue).timestamp > QUEUE_TIMEOUT_MS
  THEN <<Tail(queue), removeFromQueueDB(dbq, Head(queue).token)>>
  ELSE <<queue, dbq>>

RECURSIVE purgeStale(_, _, _)
\* "Clean stale queue entries" (the while loop of POST /api/join):
\* <<queue, dbQueue>> after it
purgeStale(queue, dbq, now) ==
  IF Len(queue) > 0 /\ now - Head(queue).timestamp > QUEUE_TIMEOUT_MS
  THEN purgeStale(Tail(queue), removeFromQueueDB(dbq, Head(queue).token), now)
  ELSE <<queue, dbq>>

\* A faulty search: only the name is compared
findOpponentByName(queue, name, ip) ==
  LET hits == {i \in 1..Len(queue) : queue[i].name # name}
  IN IF hits = {} THEN 0 ELSE CHOOSE i \in hits : \A j \in hits : i <= j

\* A faulty search: the last entry that differs from the joiner
findOpponentLast(queue, name, ip) ==
  LET hits == {i \in 1..Len(queue) : queue[i].name # name \/ queue[i].ip # ip}
  IN IF hits = {} THEN 0 ELSE CHOOSE i \in hits : \A j \in hits : i >= j

\* A faulty search: the head of the queue, whoever it is
findOpponentAny(queue, name, ip) == IF Len(queue) > 0 THEN 1 ELSE 0

\* queue.findIndex(q => q.name !== name || q.ip !== ip); 0 stands for -1
findOpponent(queue, name, ip) ==
  LET hits == {i \in 1..Len(queue) : queue[i].name # name \/ queue[i].ip # ip}
  IN IF hits = {} THEN 0 ELSE CHOOSE i \in hits : \A j \in hits : i <= j

\* queue.splice(idx, 1): the queue without its idx-th entry
spliceOut(queue, idx) ==
  SubSeq(queue, 1, idx - 1) \o SubSeq(queue, idx + 1, Len(queue))

\* POST /api/join with body {name: rawName, wait}, from address ip
joinHandler(S, rawName, ip, wait) ==
  LET name == orElse(rawName, "Anonymous")
      token == genToken(S)
      purged == purgeStale(S.queue, S.dbQueue, S.now)
      queue == purged[1]
      dbq == purged[2]
      opponentIdx == findOpponent(queue, name, ip)
      S1 == [S EXCEPT !.tokenCounter = @ + 1]
  IN IF opponentIdx >= 1
     THEN LET opponent == queue[opponentIdx]
          IN matchPlayers(
               [S1 EXCEPT !.queue = spliceOut(queue, opponentIdx),
                          !.dbQueue = removeFromQueueDB(dbq, opponent.token)],
               opponent.token, opponent.name, token, name)
     ELSE LET entry == [token |-> token, name |-> name, ip |-> ip, timestamp |-> S.now]
          IN [S1 EXCEPT !.queue = Append(queue, entry),
                        !.dbQueue = saveQueueToDB(dbq, entry),
                        !.joinPolls = IF wait THEN @ \cup {token} ELSE @]

\* A faulty poll: it takes its entry for gone as soon as the entry is not
\* the head of the queue
joinPollAnswerHead(S, token) ==
  IF token \in DOMAIN S.players THEN "matched"
  ELSE IF S.queue = <<>> \/ Head(S.queue).token # token THEN "timeout"
  ELSE "none"

\* What one run of the pollInterval callback of a blocking join answers:
\* 'matched', 'timeout', or nothing yet ("none")
joinPollAnswer(S, token) ==
  IF token \in DOMAIN S.players THEN "matched"
  ELSE IF \A i \in 1..Len(S.queue) : S.queue[i].token # token THEN "timeout"
  ELSE "none"

\* One run of the pollInterval callback of a blocking join: when it answers
\* it clears the interval
joinPoll(S, token) ==
  IF joinPollAnswer(S, token) = "matched"
  THEN [S EXCEPT !.joinPolls = @ \ {token}]
  ELSE IF joinPollAnswer(S, token) = "timeout"
  THEN [S EXCEPT !.joinPolls = @ \ {token},
                 !.dbQueue = removeFromQueueDB(@, token)]
  ELSE S

\* A faulty placing of the moves: the bot's move is never generated
placeMovesNoBot(game, playerId, move, bm) ==
  [game EXCEPT !.moves[playerId] = move]

\* POST /api/move once the submission is accepted: the caller's move is
\* stored and, in practice mode, the bot's move with it if it is missing
placeMoves(game, playerId, move, bm) ==
  LET g1 == [game EXCEPT !.moves[playerId] = move]
  IN IF isBotGame(g1) /\ g1.moves[botSideOf(g1)] = "null"
     THEN [g1 EXCEPT !.moves[botSideOf(g1)] = bm] ELSE g1

\* A faulty handler: a second submission of a side replaces its move
moveHandlerReplacing(S, token, move, wait, bm, hit) ==
  IF token = 0 \/ move = "" THEN S
  ELSE IF token \notin DOMAIN S.players THEN S
  ELSE
  LET info == S.players[token] IN
  IF info.gameId \notin DOMAIN S.games THEN S
  ELSE
  LET game == S.games[info.gameId] IN
  IF game.phase = "over" THEN S
  ELSE IF game.phase # "input" THEN S
  ELSE IF ~validateMove(move) THEN S
  ELSE
  LET g2 == placeMoves(game, info.playerId, move, bm)
      S2 == [S EXCEPT !.games[info.gameId] = g2]
      bothMoved == g2.moves.p1 # "null" /\ g2.moves.p2 # "null"
  IN IF bothMoved THEN resolveIfReady(S2, info.gameId, hit)
     ELSE IF wait
     THEN [S2 EXCEPT !.games[info.gameId].moveWaiters = Append(@, info.playerId)]
     ELSE S2

\* A faulty handler: the game is saved as soon as one move is accepted
moveHandlerSaving(S, token, move, wait, bm, hit) ==
  IF token = 0 \/ move = "" THEN S
  ELSE IF token \notin DOMAIN S.players THEN S
  ELSE
  LET info == S.players[token] IN
  IF info.gameId \notin DOMAIN S.games THEN S
  ELSE
  LET game == S.games[info.gameId] IN
  IF game.phase = "over" THEN S
  ELSE IF game.phase # "input" THEN S
  ELSE IF game.moves[info.playerId] # "null" THEN S
  ELSE IF ~validateMove(move) THEN S
  ELSE
  LET g2 == placeMoves(game, info.playerId, move, bm)
      S2 == [S EXCEPT !.games[info.gameId] = g2]
      bothMoved == g2.moves.p1 # "null" /\ g2.moves.p2 # "null"
      S3 == [S2 EXCEPT !.dbGames = saveGameToDB(@, g2, S.now)]
  IN IF bothMoved THEN resolveIfReady(S2, info.gameId, hit)
     ELSE IF wait
     THEN [S3 EXCEPT !.games[info.gameId].moveWaiters = Append(@, info.playerId)]
     ELSE S3

\* POST /api/move with body {token, move, wait}.  bm is what botMove returns
\* if the bot's move is generated, hit the draw resolveTurn may take.
moveHandler(S, token, move, wait, bm, hit) ==
  IF token = 0 \/ move = "" THEN S
  ELSE IF token \notin DOMAIN S.players THEN S
  ELSE
  LET info == S.players[token] IN
  IF info.gameId \notin DOMAIN S.games THEN S
  ELSE
  LET game == S.games[info.gameId] IN
  IF game.phase = "over" THEN S
  ELSE IF game.phase # "input" THEN S
  ELSE IF game.moves[info.playerId] # "null" THEN S
  ELSE IF ~validateMove(move) THEN S
  ELSE
  LET g2 == placeMoves(game, info.playerId, move, bm)
      S2 == [S EXCEPT !.games[info.gameId] = g2]
      bothMoved == g2.moves.p1 # "null" /\ g2.moves.p2 # "null"
  IN IF bothMoved THEN resolveIfReady(S2, info.gameId, hit)
     ELSE IF wait
     THEN [S2 EXCEPT !.games[info.gameId].moveWaiters = Append(@, info.playerId)]
     ELSE S2

\* What POST /api/move answers when the handler returns: an error, the
\* status of the response, or "blocked" when the response is left to the
\* waiter the handler registered
moveStatus(S, token, move, wait, bm, hit) ==
  IF token = 0 \/ move = "" THEN "error"
  ELSE IF token \notin DOMAIN S.players THEN "error"
  ELSE
  LET info == S.players[token] IN
  IF info.gameId \notin DOMAIN S.games THEN "error"
  ELSE
  LET game == S.games[info.gameId] IN
  IF game.phase = "over" THEN "game_over"
  ELSE IF game.phase # "input" THEN "error"
  ELSE IF game.moves[info.playerId] # "null" THEN "error"
  ELSE IF ~validateMove(move) THEN "error"
  ELSE
  LET g2 == placeMoves(game, info.playerId, move, bm)
      bothMoved == g2.moves.p1 # "null" /\ g2.moves.p2 # "null"
  IN IF bothMoved
     THEN IF moveHandler(S, token, move, wait, bm, hit).games[info.gameId].phase = "over"
          THEN "game_over" ELSE "resolved"
     ELSE IF wait THEN "blocked"
     ELSE "waiting_for_opponent"

\* the moves botMove can return when moveHandler generates the bot's move
moveBotChoices(S, token) ==
  IF token \in DOMAIN S.players /\ S.players[token].gameId \in DOMAIN S.games
  THEN LET game == S.games[S.players[token].gameId]
       IN botMoves(getGameState(game, botSideOf(game)), game.botDifficulty)
  ELSE {"advance"}

\* POST /api/practice with body {difficulty, name}
practiceHandler(S, difficulty, name) ==
  LET token == genToken(S)
      id == gameId("bot_", S.gameIdCounter)
      game == startTurnTimer(
                [createGame(id) EXCEPT !.phase = "input",
                                       !.botDifficulty = difficulty,
                                       !.botSide = "p2",
                                       !.p1Name = name,
                                       !.p2Name = "Bot(" \o difficulty \o ")",
                                       !.p1Token = token,
                                       !.moveWaiters = <<>>])
  IN [S EXCEPT !.tokenCounter = @ + 1,
               !.gameIdCounter = @ + 1,
               !.games = (id :> game) @@ @,
               !.players = (token :> [gameId |-> id, playerId |-> "p1", name |-> name]) @@ @,
               !.dbGames = saveGameToDB(@, game, S.now)]

\* POST /api/exhibition with body {p1Difficulty: d1, p2Difficulty: d2}
exhibitionHandler(S, d1, d2) ==
  IF \E id \in DOMAIN S.games : S.games[id].exhibition /\ S.games[id].phase # "over"
  THEN S                                               \* "already_running"
  ELSE
  LET id == gameId("ex_", S.gameIdCounter + 1)
      t1 == S.tokenCounter
      t2 == S.tokenCounter + 1
      \* the object literal of the handler: no maxTurns, turnTimer,
      \* moveWaiters, p1Token, p2Token
      game == [createGame(id) EXCEPT
                 !.p1 = t1, !.p2 = t2,
                 !.p1Name = "Bot(" \o orElse(d1, "hard") \o ")",
                 !.p2Name = "Bot(" \o orElse(d2, "hard") \o ")",
                 !.exhibition = TRUE,
                 !.botP1Difficulty = orElse(d1, "hard"),
                 !.botP2Difficulty = orElse(d2, "hard"),
                 !.maxTurns = <<>>,
                 \* setTimeout(playExhibitionTurn, 1000)
                 !.exTimer = TRUE]
  IN [S EXCEPT !.tokenCounter = @ + 2,
               !.gameIdCounter = @ + 1,
               !.games = (id :> game) @@ @,
               !.players = (t1 :> [gameId |-> id, playerId |-> "p1", name |-> "undefined"])
                           @@ ((t2 :> [gameId |-> id, playerId |-> "p2", name |-> "undefined"])
                           @@ @),
               !.dbGames = saveGameToDB(@, game, S.now)]

\* playExhibitionTurn() of the exhibition id; m1, m2 are what botMove returns
playExhibitionTurn(S, id, m1, m2, hit) ==
  LET game == S.games[id] IN
  IF game.phase = "over" THEN [S EXCEPT !.games[id].exTimer = FALSE]
  ELSE
  LET S1 == [S EXCEPT !.games[id].exTimer = FALSE,
                      !.games[id].moves = [p1 |-> m1, p2 |-> m2]]
      S2 == resolveIfReady(S1, id, hit)
  IN IF S2.games[id].phase # "over"
     THEN [S2 EXCEPT !.games[id].exTimer = TRUE] ELSE S2

\* A faulty timer callback: it puts advance in the place of every move
turnTimerFiredOverwrite(S, id, hit) ==
  LET game == S.games[id]
      filled == [game EXCEPT
                   !.turnTimer = FALSE,
                   !.moves = [p1 |-> "advance", p2 |-> "advance"]]
  IN resolveIfReady([S EXCEPT !.games[id] = filled], id, hit)

\* The callback startTurnTimer arms, when it fires
turnTimerFired(S, id, hit) ==
  LET game == S.games[id]
      filled == [game EXCEPT
                   !.turnTimer = FALSE,
                   !.moves = [p1 |-> IF game.moves.p1 = "null" THEN "advance" ELSE game.moves.p1,
                              p2 |-> IF game.moves.p2 = "null" THEN "advance" ELSE game.moves.p2]]
  IN resolveIfReady([S EXCEPT !.games[id] = filled], id, hit)

\* The bot follow-up callback resolveIfReady schedules, when it fires
\* (lines 905-909: it does not look at the phase before it sets the move)
botFollowUp(S, id, bm, hit) ==
  LET game == S.games[id]
      moved == [game EXCEPT !.botTimers = @ - 1,
                            !.moves[botSideOf(game)] = bm]
  IN resolveIfReady([S EXCEPT !.games[id] = moved], id, hit)

----------------------------------------------------------------------------
(* Startup *)

\* A faulty selection: every row of the table
activeIdsAll(db) == DOMAIN db

\* loadActiveGamesStmt: SELECT * FROM games WHERE phase != 'over'
activeIds(db) == {id \in DOMAIN db : db[id].phase # "over"}

\* Every order of the ids
RECURSIVE permutations(_)
permutations(ids) ==
  IF ids = {} THEN {<<>>}
  ELSE UNION { {<<id>> \o rest : rest \in permutations(ids \ {id})} : id \in ids }

\* ORDER BY updated_at DESC over the rows `over` of the table: the sequences
\* of ids the statement can return.  Rows with equal updated_at come in
\* either order.
RECURSIVE newestFirst(_, _)
newestFirst(db, over) ==
  IF over = {} THEN {<<>>}
  ELSE LET stamps == {db[id].updated_at : id \in over}
           hi == CHOOSE n \in stamps : \A m \in stamps : m <= n
           lo == CHOOSE n \in stamps : \A m \in stamps : m >= n
           mid == (lo + hi) \div 2
       IN IF lo = hi THEN permutations(over)
          ELSE { newer \o older :
                   newer \in newestFirst(db, {id \in over : db[id].updated_at > mid}),
                   older \in newestFirst(db, {id \in over : db[id].updated_at <= mid}) }

\* getCompletedGamesStmt: the ids of the rows with phase = 'over', ORDER BY
\* updated_at DESC LIMIT 100
completedOrders(db) ==
  LET over == {id \in DOMAIN db : db[id].phase = "over"}
      k == Min(ArchiveLimit, Cardinality(over))
  IN { SubSeq(order, 1, k) : order \in newestFirst(db, over) }

\* "Restore player mappings": the bindings one loaded game contributes
bindingsOf(game) ==
  (IF game.p1Token # 0
   THEN {<<game.p1Token, [gameId |-> game.id, playerId |-> "p1", name |-> game.p1Name]>>}
   ELSE {})
  \cup
  (IF game.p2Token # 0
   THEN {<<game.p2Token, [gameId |-> game.id, playerId |-> "p2", name |-> game.p2Name]>>}
   ELSE {})
  \cup
  (IF game.p1 # 0 /\ game.exhibition
   THEN {<<game.p1, [gameId |-> game.id, playerId |-> "p1", name |-> "undefined"]>>}
   ELSE {})
  \cup
  (IF game.p2 # 0 /\ game.exhibition
   THEN {<<game.p2, [gameId |-> game.id, playerId |-> "p2", name |-> "undefined"]>>}
   ELSE {})

SetMax(ns) == CHOOSE n \in ns : \A m \in ns : m <= n

\* A faulty test: a row as old as the timeout is still loaded
recentOrDue(row, t) == t - row.created_at <= QUEUE_TIMEOUT_MS

\* now - row.created_at < QUEUE_TIMEOUT_MS: the row is loaded into the queue
recent(row, t) == t - row.created_at < QUEUE_TIMEOUT_MS

\* loadDataFromDB() in a fresh process: the program state rebuilt from the
\* tables.  completed is the result of getCompletedGamesStmt.
loadDataFromDB(S, completed) ==
  LET db == S.dbGames
      games == [id \in activeIds(db) |-> startTurnTimer(loadGameFromDB(db[id]))]
      bindings == UNION {bindingsOf(games[id]) : id \in DOMAIN games}
      tokens == {b[1] : b \in bindings}
      players == [t \in tokens |-> (CHOOSE b \in bindings : b[1] = t)[2]]
      keep(r) == recent(r, S.now)
      rows == SelectSeq(S.dbQueue, keep)
      queue == [i \in 1..Len(rows) |->
                  [token |-> rows[i].token, name |-> rows[i].name,
                   ip |-> rows[i].ip, timestamp |-> rows[i].created_at]]
      completedGames ==
        [i \in 1..Len(completed) |->
           LET row == db[completed[i]] IN
           [ id |-> row.id,
             winner |-> row.winner,
             turns |-> row.turn,
             p1Name |-> row.p1_name,
             p2Name |-> row.p2_name,
             finalScore |-> finalScoreOf(row.state_json.scores),
             timestamp |-> row.updated_at ]]
      maxGameId == SetMax({idNumber(id) : id \in DOMAIN games}
                          \cup {idNumber(completed[i]) : i \in 1..Len(completed)}
                          \cup {0})
  IN [ games |-> games,
       players |-> players,
       queue |-> queue,
       completedGames |-> completedGames,
       gameIdCounter |-> maxGameId + 1,
       joinPolls |-> {},
       \* deleteQueueStmt.run(row.token) for every expired row
       dbQueue |-> rows,
       dbGames |-> db,
       tokenCounter |-> S.tokenCounter,
       now |-> S.now ]

----------------------------------------------------------------------------
(* The state machine *)

VARIABLES games, players, queue, completedGames, gameIdCounter, joinPolls,
          dbGames, dbQueue, tokenCounter, now

vars == <<games, players, queue, completedGames, gameIdCounter, joinPolls,
          dbGames, dbQueue, tokenCounter, now>>

\* the current state, as the record the handlers take
St ==
  [ games |-> games, players |-> players, queue |-> queue,
    completedGames |-> completedGames, gameIdCounter |-> gameIdCounter,
    joinPolls |-> joinPolls, dbGames |-> dbGames, dbQueue |-> dbQueue,
    tokenCounter |-> tokenCounter, now |-> now ]

\* the next state is T
Becomes(T) ==
  \E R \in {T} :
    /\ games' = R.games
    /\ players' = R.players
    /\ queue' = R.queue
    /\ completedGames' = R.completedGames
    /\ gameIdCounter' = R.gameIdCounter
    /\ joinPolls' = R.joinPolls
    /\ dbGames' = R.dbGames
    /\ dbQueue' = R.dbQueue
    /\ tokenCounter' = R.tokenCounter
    /\ now' = R.now

\* The state after construction with an empty database (lines 502-508, 597)
Init ==
  /\ games = <<>>
  /\ players = <<>>
  /\ queue = <<>>
  /\ completedGames = <<>>
  /\ gameIdCounter = 1
  /\ joinPolls = {}
  /\ dbGames = <<>>
  /\ dbQueue = <<>>
  /\ tokenCounter = 1
  /\ now = 0

----------------------------------------------------------------------------
(* Bounds of the model and the inputs of the requests *)

MaxTokens == 3        \* tokens handed out
MaxBotTimers == 2     \* bot follow-up callbacks pending on one game
MaxTicks == 3         \* steps of the clock
PlayDepth == 1        \* turns a session plays in Spec
SessionTurns == 5     \* turns the session plays in SpecSession
TurnCap == 32         \* turns the session plays in SpecLong and SpecTimers

\* one step of the clock, in milliseconds: half the queue timeout
TickMs == QUEUE_TIMEOUT_MS \div 2

Names == {"Ann", "Bob"}
Ips == {"ip1", "ip2"}
Difficulties == {"easy", "medium", "hard"}
MoveInputs == validMoves \cup {"bogus"}
LongMoves == {"advance"}
RegistryMoves == {"lunge", "bogus"}

\* the tokens a client can hold: those of join and practice responses (the
\* exhibition handler keeps the tokens it generates to itself)
clientTokens ==
  {t \in 1..(tokenCounter - 1) :
     ~(\E id \in DOMAIN games : games[id].exhibition /\ t \in {games[id].p1, games[id].p2})}

\* the session a token is bound to, if it is live
boundGame(t) ==
  IF t \in DOMAIN players /\ players[t].gameId \in DOMAIN games
  THEN {players[t].gameId} ELSE {}

----------------------------------------------------------------------------
(* Actions: one per request handler and per callback *)

Join(name, ip, wait) ==
  /\ tokenCounter <= MaxTokens
  /\ Becomes(joinHandler(St, name, ip, wait))

JoinPoll(token) ==
  /\ token \in joinPolls
  /\ Becomes(joinPoll(St, token))

Practice(difficulty, name) ==
  /\ tokenCounter <= MaxTokens
  /\ Becomes(practiceHandler(St, difficulty, name))

Exhibition(d1, d2) ==
  /\ tokenCounter + 1 <= MaxTokens
  /\ Becomes(exhibitionHandler(St, d1, d2))

Move(token, move, wait, bm, hit) ==
  /\ bm \in moveBotChoices(St, token)
  /\ \A id \in boundGame(token) : games[id].botTimers < MaxBotTimers
  /\ Becomes(moveHandler(St, token, move, wait, bm, hit))

\* The turn timer expires TURN_TIMEOUT_MS after it is armed.  It is armed
\* no earlier than any bot follow-up (200 ms) or exhibition turn (at most
\* 2000 ms) pending on the game, so those callbacks run before it.
TurnTimer(id, hit) ==
  /\ id \in DOMAIN games
  /\ games[id].turnTimer
  /\ games[id].botTimers = 0
  /\ ~games[id].exTimer
  /\ Becomes(turnTimerFired(St, id, hit))

BotFollowUp(id, bm, hit) ==
  /\ id \in DOMAIN games
  /\ games[id].botTimers > 0
  /\ bm \in botMoves(getGameState(games[id], botSideOf(games[id])), games[id].botDifficulty)
  /\ Becomes(botFollowUp(St, id, bm, hit))

ExhibitionTurn(id, m1, m2, hit) ==
  /\ id \in DOMAIN games
  /\ games[id].exTimer
  /\ m1 \in botMoves(getGameState(games[id], "p1"), games[id].botP1Difficulty)
  /\ m2 \in botMoves(getGameState(games[id], "p2"), games[id].botP2Difficulty)
  /\ Becomes(playExhibitionTurn(St, id, m1, m2, hit))

\* time passes
Tick ==
  /\ now < MaxTicks * TickMs
  /\ now' = now + TickMs
  /\ UNCHANGED <<games, players, queue, completedGames, gameIdCounter, joinPolls,
                 dbGames, dbQueue, tokenCounter>>

\* the process stops and starts again: memory is rebuilt from the tables
Restart(completed) ==
  /\ completed \in completedOrders(dbGames)
  /\ Becomes(loadDataFromDB(St, completed))

----------------------------------------------------------------------------
(* The draws a step takes *)

\* resolveTurn draws Math.random() only for a lunge at distance 2
hitDraws(id) ==
  IF id \in DOMAIN games /\ games[id].distance = 2 THEN BOOLEAN ELSE {FALSE}

moveHitDraws(token) ==
  IF \E id \in boundGame(token) : games[id].distance = 2 THEN BOOLEAN ELSE {FALSE}

\* the session has played fewer than n turns, or is over: what bounds the
\* steps that resolve a turn (a bot follow-up never does: it finds the move
\* of the human side empty)
Played(id, n) == games[id].turn < n \/ games[id].phase = "over"

\* the same of the session of the token, if it has one
TokenPlayed(token, n) == \A id \in boundGame(token) : Played(id, n)

----------------------------------------------------------------------------
(* Spec: the session registry.  Sessions are created on every path, play   *)
(* at most PlayDepth turns each, and the process restarts at any moment.   *)
(* The clock stands still and joins do not block.                          *)

Next ==
  \/ \E name \in Names : Join(name, "ip1", FALSE)
  \/ Practice("hard", "Ann")
  \/ Exhibition("", "")
  \/ \E token \in clientTokens \cup {0}, move \in RegistryMoves, wait \in BOOLEAN :
       \E bm \in moveBotChoices(St, token), hit \in moveHitDraws(token) :
          TokenPlayed(token, PlayDepth) /\ Move(token, move, wait, bm, hit)
  \/ \E id \in DOMAIN games : \E hit \in hitDraws(id) :
       Played(id, PlayDepth) /\ TurnTimer(id, hit)
  \/ \E id \in DOMAIN games : \E bm \in validMoves, hit \in hitDraws(id) :
       BotFollowUp(id, bm, hit)
  \/ \E id \in DOMAIN games : \E m1, m2 \in validMoves, hit \in hitDraws(id) :
       Played(id, PlayDepth) /\ ExhibitionTurn(id, m1, m2, hit)
  \/ \E completed \in completedOrders(dbGames) : Restart(completed)

Spec == Init /\ [][Next]_vars

----------------------------------------------------------------------------
(* SpecSession: the first session the server creates, of any kind, with    *)
(* every move open to its players, for SessionTurns turns.                 *)

NoSessionYet == DOMAIN dbGames = {}

NextSession ==
  \/ NoSessionYet /\ queue = <<>> /\ Join("Ann", "ip1", FALSE)
  \/ NoSessionYet /\ queue # <<>> /\ Join("Bob", "ip1", FALSE)
  \/ NoSessionYet /\ queue = <<>> /\ Practice("medium", "Ann")
  \/ NoSessionYet /\ queue = <<>> /\ Exhibition("", "easy")
  \/ \E token \in clientTokens, move \in MoveInputs, wait \in BOOLEAN :
       \E bm \in moveBotChoices(St, token), hit \in moveHitDraws(token) :
          TokenPlayed(token, SessionTurns) /\ Move(token, move, wait, bm, hit)
  \/ \E id \in DOMAIN games : \E hit \in hitDraws(id) :
       Played(id, SessionTurns) /\ TurnTimer(id, hit)
  \/ \E id \in DOMAIN games : \E bm \in validMoves, hit \in hitDraws(id) :
       BotFollowUp(id, bm, hit)
  \/ \E id \in DOMAIN games : \E m1, m2 \in validMoves, hit \in hitDraws(id) :
       Played(id, SessionTurns) /\ ExhibitionTurn(id, m1, m2, hit)
  \/ \E completed \in completedOrders(dbGames) : Restart(completed)

SpecSession == Init /\ [][NextSession]_vars

----------------------------------------------------------------------------
(* SpecLong: the first session the server creates, played to the turn      *)
(* limit and past it, its human players choosing among LongMoves.          *)

NextLong ==
  \/ NoSessionYet /\ queue = <<>> /\ Join("Ann", "ip1", FALSE)
  \/ NoSessionYet /\ queue # <<>> /\ Join("Bob", "ip1", FALSE)
  \/ NoSessionYet /\ queue = <<>> /\ Practice("hard", "Ann")
  \/ NoSessionYet /\ queue = <<>> /\ Exhibition("", "")
  \/ \E token \in clientTokens, move \in LongMoves :
       \E bm \in moveBotChoices(St, token), hit \in moveHitDraws(token) :
          TokenPlayed(token, TurnCap) /\ Move(token, move, FALSE, bm, hit)
  \/ \E id \in DOMAIN games : \E hit \in hitDraws(id) :
       Played(id, TurnCap) /\ TurnTimer(id, hit)
  \/ \E id \in DOMAIN games : \E bm \in validMoves, hit \in hitDraws(id) :
       BotFollowUp(id, bm, hit)
  \/ \E id \in DOMAIN games : \E m1, m2 \in validMoves, hit \in hitDraws(id) :
       Played(id, TurnCap) /\ ExhibitionTurn(id, m1, m2, hit)
  \/ \E completed \in completedOrders(dbGames) : Restart(completed)

SpecLong == Init /\ [][NextLong]_vars

----------------------------------------------------------------------------
(* SpecTimers: the sessions of SpecLong on a server that keeps running and *)
(* whose timers fire: an armed turn timer, a pending bot follow-up and a   *)
(* pending exhibition turn run in the end.  No request has to arrive.      *)

TurnTimerFires ==
  \E id \in DOMAIN games : \E hit \in hitDraws(id) :
     Played(id, TurnCap) /\ TurnTimer(id, hit)

BotFollowUpFires ==
  \E id \in DOMAIN games : \E bm \in validMoves, hit \in hitDraws(id) :
     BotFollowUp(id, bm, hit)

ExhibitionTurnFires ==
  \E id \in DOMAIN games : \E m1, m2 \in validMoves, hit \in hitDraws(id) :
     Played(id, TurnCap) /\ ExhibitionTurn(id, m1, m2, hit)

NextTimers ==
  \/ NoSessionYet /\ queue = <<>> /\ Join("Ann", "ip1", FALSE)
  \/ NoSessionYet /\ queue # <<>> /\ Join("Bob", "ip1", FALSE)
  \/ NoSessionYet /\ queue = <<>> /\ Practice("hard", "Ann")
  \/ NoSessionYet /\ queue = <<>> /\ Exhibition("", "")
  \/ \E token \in clientTokens, move \in LongMoves :
       \E bm \in moveBotChoices(St, token), hit \in moveHitDraws(token) :
          TokenPlayed(token, TurnCap) /\ Move(token, move, FALSE, bm, hit)
  \/ TurnTimerFires
  \/ BotFollowUpFires
  \/ ExhibitionTurnFires

SpecTimers ==
  /\ Init /\ [][NextTimers]_vars
  /\ WF_vars(TurnTimerFires)
  /\ WF_vars(BotFollowUpFires)
  /\ WF_vars(ExhibitionTurnFires)

----------------------------------------------------------------------------
(* SpecQueue: the matchmaking queue.  Joiners of every name and origin,    *)
(* blocking or not, the poll of a blocking join, the clock and restarts.   *)
(* The timers of the process fire: the clock advances and the interval of  *)
(* a blocking join runs again and again.  No join request has to arrive.   *)

NextQueue ==
  \/ \E name \in Names, ip \in Ips, wait \in BOOLEAN : Join(name, ip, wait)
  \/ \E token \in joinPolls : JoinPoll(token)
  \/ Tick
  \/ \E completed \in completedOrders(dbGames) : Restart(completed)

SpecQueue ==
  /\ Init /\ [][NextQueue]_vars
  /\ WF_vars(Tick)
  /\ \A token \in 1..MaxTokens : WF_vars(JoinPoll(token))

----------------------------------------------------------------------------
(* SpecArchive: a server that has already played ArchiveLimit paired       *)
(* sessions to the end.  One more pair joins and plays, with LateMoves,    *)
(* and the process restarts at any moment.                                 *)

LateTokens == 2       \* tokens handed out after the sessions of the past

LateMoves == {"advance", "lunge"}

\* both players of a paired session submit the same move, p1 first
bothSubmit(S, t1, t2, move) ==
  moveHandler(moveHandler(S, t1, move, FALSE, "advance", FALSE),
              t2, move, FALSE, "advance", FALSE)

\* the server S a millisecond after one more pair has joined and played its
\* session to the end: two clashes bring the distance to 1, three double
\* hits end the session 3-3
playedOut(S) ==
  LET t1 == S.tokenCounter
      t2 == S.tokenCounter + 1
      paired == joinHandler(joinHandler(S, "Ann", "ip1", FALSE), "Bob", "ip1", FALSE)
      over == bothSubmit(bothSubmit(bothSubmit(bothSubmit(bothSubmit(
                paired, t1, t2, "advance"), t1, t2, "advance"),
                t1, t2, "lunge"), t1, t2, "lunge"), t1, t2, "lunge")
  IN [over EXCEPT !.now = @ + 1]

\* the state of a server just started with an empty database
Fresh ==
  [ games |-> <<>>, players |-> <<>>, queue |-> <<>>, completedGames |-> <<>>,
    gameIdCounter |-> 1, joinPolls |-> {}, dbGames |-> <<>>, dbQueue |-> <<>>,
    tokenCounter |-> 1, now |-> 0 ]

\* the server that has played only the i-th session of the past: its pair
\* joined at time i - 1 with the tokens 2i - 1 and 2i and played to the end
sessionOfPast(i) ==
  playedOut([Fresh EXCEPT !.gameIdCounter = i,
                          !.tokenCounter = 2 * i - 1,
                          !.now = i - 1])

\* the server after n sessions have been played to the end, one after the
\* other and a millisecond apart: each session has left its game, its
\* bindings, its row and its entry of the archive
afterSessions(n) ==
  LET ids == {gameId("g", i) : i \in 1..n}
  IN [ games |-> [id \in ids |-> sessionOfPast(id[2]).games[id]],
       players |-> [t \in 1..(2 * n) |-> sessionOfPast((t + 1) \div 2).players[t]],
       queue |-> <<>>,
       completedGames |-> [i \in 1..n |-> sessionOfPast(i).completedGames[1]],
       gameIdCounter |-> n + 1,
       joinPolls |-> {},
       dbGames |-> [id \in ids |-> sessionOfPast(id[2]).dbGames[id]],
       dbQueue |-> <<>>,
       tokenCounter |-> 2 * n + 1,
       now |-> n ]

InitArchive ==
  LET T == afterSessions(ArchiveLimit)
  IN /\ games = T.games
     /\ players = T.players
     /\ queue = T.queue
     /\ completedGames = T.completedGames
     /\ gameIdCounter = T.gameIdCounter
     /\ joinPolls = T.joinPolls
     /\ dbGames = T.dbGames
     /\ dbQueue = T.dbQueue
     /\ tokenCounter = T.tokenCounter
     /\ now = T.now

\* POST /api/join of a player who arrives after the sessions of the past
JoinLate(name, ip) ==
  /\ tokenCounter <= 2 * ArchiveLimit + LateTokens
  /\ Becomes(joinHandler(St, name, ip, FALSE))

\* the tokens bound to a session that is not over
liveTokens ==
  {t \in DOMAIN players :
     players[t].gameId \in DOMAIN games /\ games[players[t].gameId].phase # "over"}

\* the sessions that are not over
liveIds == {id \in DOMAIN games : games[id].phase # "over"}

NextArchive ==
  \/ \E name \in Names : JoinLate(name, "ip1")
  \/ \E token \in liveTokens, move \in LateMoves :
       TokenPlayed(token, SessionTurns) /\ Move(token, move, FALSE, "advance", FALSE)
  \/ \E id \in liveIds : Played(id, SessionTurns) /\ TurnTimer(id, FALSE)
  \/ \E completed \in completedOrders(dbGames) : Restart(completed)

SpecArchive == InitArchive /\ [][NextArchive]_vars

----------------------------------------------------------------------------
(* SpecFaulty: the server while statements of the database can throw.      *)
(* saveGameToDB catches what its statements throw; saveQueueToDB and       *)
(* removeFromQueueDB do not, so the exception ends the request handler     *)
(* where it stands.                                                        *)

\* the tables whose statements can throw during one request or callback
Tables == {"games", "queue_entries"}

\* saveGameToDB when the statements on games throw: the catch logs, the
\* table is as before
savesCaught(S, T, down) ==
  IF "games" \in down THEN [T EXCEPT !.dbGames = S.dbGames] ELSE T

\* POST /api/join while the statements on the tables of down throw.  With
\* queue_entries down the handler ends at its first statement on that
\* table: after queue.shift() of a stale entry, after queue.splice of the
\* opponent, or after queue.push of the joiner.
joinHandlerDown(S, rawName, ip, wait, down) ==
  LET name == orElse(rawName, "Anonymous")
      token == genToken(S)
      S1 == [S EXCEPT !.tokenCounter = @ + 1]
      opponentIdx == findOpponent(S.queue, name, ip)
      entry == [token |-> token, name |-> name, ip |-> ip, timestamp |-> S.now]
  IN IF "queue_entries" \notin down
     THEN savesCaught(S, joinHandler(S, rawName, ip, wait), down)
     ELSE IF Len(S.queue) > 0 /\ S.now - Head(S.queue).timestamp > QUEUE_TIMEOUT_MS
     THEN [S1 EXCEPT !.queue = Tail(@)]
     ELSE IF opponentIdx >= 1
     THEN [S1 EXCEPT !.queue = spliceOut(@, opponentIdx)]
     ELSE [S1 EXCEPT !.queue = Append(@, entry)]

\* POST /api/move while the statements on the tables of down throw
moveHandlerDown(S, token, move, wait, bm, hit, down) ==
  savesCaught(S, moveHandler(S, token, move, wait, bm, hit), down)

\* the turn timer callback while the statements on the tables of down throw
turnTimerFiredDown(S, id, hit, down) ==
  savesCaught(S, turnTimerFired(S, id, hit), down)

JoinDown(name, ip, down) ==
  /\ tokenCounter <= MaxTokens
  /\ Becomes(joinHandlerDown(St, name, ip, FALSE, down))

MoveDown(token, move, hit, down) ==
  /\ TokenPlayed(token, PlayDepth)
  /\ Becomes(moveHandlerDown(St, token, move, FALSE, "advance", hit, down))

TurnTimerDown(id, hit, down) ==
  /\ id \in DOMAIN games
  /\ games[id].turnTimer
  /\ Played(id, PlayDepth)
  /\ Becomes(turnTimerFiredDown(St, id, hit, down))

NextFaulty ==
  \/ \E name \in Names, down \in SUBSET Tables : JoinDown(name, "ip1", down)
  \/ \E token \in clientTokens, move \in LateMoves :
       \E hit \in moveHitDraws(token), down \in SUBSET {"games"} :
          MoveDown(token, move, hit, down)
  \/ \E id \in DOMAIN games : \E hit \in hitDraws(id), down \in SUBSET {"games"} :
       TurnTimerDown(id, hit, down)
  \/ Tick

SpecFaulty == Init /\ [][NextFaulty]_vars

----------------------------------------------------------------------------
(* SpecTurn: the resolution of a turn.  One paired session has opened with *)
(* OpeningTurns turns without a lunge, which bring it to every distance;   *)
(* then both players submit any pair of moves, ExchangeTurns times.        *)

OpeningTurns == 2
ExchangeTurns == 2

OpeningMoves == {"advance", "retreat", "parry"}

\* the tokens of the first two joiners: the first is p1 of their session
FirstToken == 1
SecondToken == 2

\* both players of the first session submit, p1 first; hit is the draw the
\* resolution may take
exchange(S, m1, m2, hit) ==
  moveHandler(moveHandler(S, FirstToken, m1, FALSE, "advance", FALSE),
              SecondToken, m2, FALSE, "advance", hit)

\* the server after two joins
paired == joinHandler(joinHandler(Fresh, "Ann", "ip1", FALSE), "Bob", "ip1", FALSE)

InitTurn ==
  \E a1 \in OpeningMoves, b1 \in OpeningMoves, a2 \in OpeningMoves, b2 \in OpeningMoves :
    LET T == exchange(exchange(paired, a1, b1, FALSE), a2, b2, FALSE)
    IN /\ games = T.games
       /\ players = T.players
       /\ queue = T.queue
       /\ completedGames = T.completedGames
       /\ gameIdCounter = T.gameIdCounter
       /\ joinPolls = T.joinPolls
       /\ dbGames = T.dbGames
       /\ dbQueue = T.dbQueue
       /\ tokenCounter = T.tokenCounter
       /\ now = T.now

Exchange(m1, m2, hit) ==
  /\ TokenPlayed(FirstToken, OpeningTurns + ExchangeTurns)
  /\ \A id \in boundGame(FirstToken) : games[id].phase = "input"
  /\ Becomes(exchange(St, m1, m2, hit))

NextTurn ==
  \E m1 \in validMoves, m2 \in validMoves, hit \in moveHitDraws(FirstToken) :
    Exchange(m1, m2, hit)

SpecTurn == InitTurn /\ [][NextTurn]_vars

----------------------------------------------------------------------------
(* Notions the properties share *)

\* the sessions of the registry
Sessions == DOMAIN games

bothNull == [p1 |-> "null", p2 |-> "null"]

\* the tokens bound to session id
tokensOf(S, id) == {t \in DOMAIN S.players : S.players[t].gameId = id}

\* the turn timer of session id is armed and nothing is due before it
timerDue(S, id) ==
  /\ S.games[id].phase = "input"
  /\ S.games[id].turnTimer
  /\ S.games[id].botTimers = 0
  /\ ~S.games[id].exTimer

\* a submission of token t is one POST /api/move accepts for session id
accepts(S, t, id) ==
  /\ t \in tokensOf(S, id)
  /\ S.games[id].phase = "input"
  /\ S.games[id].moves[S.players[t].playerId] = "null"

----------------------------------------------------------------------------
(* C1 *)

\* The turn of session id after the timer expires and then the submission
\* (t, m) is handled: one value for each draw the two steps can take.
turnsTimerFirst(S, id, t, m) ==
  UNION { LET S1 == turnTimerFired(S, id, h1)
          IN { moveHandler(S1, t, m, w, bm, h2).games[id].turn :
                 w \in BOOLEAN, bm \in moveBotChoices(S1, t), h2 \in BOOLEAN }
          : h1 \in BOOLEAN }

\* The turn of session id after the submission (t, m) is handled and then
\* the timer expires - if the submission left that timer armed, that is if
\* it did not resolve the turn.
turnsSubmitFirst(S, id, t, m) ==
  UNION { LET S1 == moveHandler(S, t, m, w, bm, h1)
          IN IF S1.games[id].turn = S.games[id].turn /\ timerDue(S1, id)
             THEN { turnTimerFired(S1, id, h2).games[id].turn : h2 \in BOOLEAN }
             ELSE { S1.games[id].turn }
          : w \in BOOLEAN, bm \in moveBotChoices(S, t), h1 \in BOOLEAN }

\* C1: in every session, when a submission and the expiry of the turn timer
\* of turn N both occur, in either order, the turn number ends at N + 1.
C1_ExactlyOneIncrement ==
  \A id \in Sessions : \A t \in tokensOf(St, id), m \in validMoves :
    (timerDue(St, id) /\ accepts(St, t, id)) =>
      /\ turnsTimerFirst(St, id, t, m) = {games[id].turn + 1}
      /\ turnsSubmitFirst(St, id, t, m) = {games[id].turn + 1}

----------------------------------------------------------------------------
(* C2 *)

\* what a pending move can be
pendingValues == validMoves \cup {"null"}

\* state S with the pending moves of session id set to m1 and m2
withMoves(S, id, m1, m2) == [S EXCEPT !.games[id].moves = [p1 |-> m1, p2 |-> m2]]

\* resolveIfReady resolves session id exactly when its phase is input and
\* both pending moves are present; it then adds one to the turn number and
\* empties both pending moves, and otherwise leaves the session as it is
C2_Guard ==
  \A id \in Sessions : \A m1 \in pendingValues, m2 \in pendingValues, hit \in BOOLEAN :
    LET S1 == withMoves(St, id, m1, m2)
        R == resolveIfReady(S1, id, hit)
        ready == games[id].phase = "input" /\ m1 # "null" /\ m2 # "null"
    IN IF ready
       THEN /\ R.games[id].turn = games[id].turn + 1
            /\ R.games[id].moves = bothNull
       ELSE R = S1

\* a step that changes the turn number of a session starts in phase input,
\* adds exactly one to it and leaves both pending moves empty
C2_Step ==
  \A id \in Sessions \cap DOMAIN games' :
    games'[id].turn # games[id].turn =>
      /\ games[id].phase = "input"
      /\ games'[id].turn = games[id].turn + 1
      /\ games'[id].moves = bothNull

\* C2: the turn number of a session changes only by a resolution; a
\* resolution happens only in phase input with both pending moves present,
\* increases the turn number by exactly 1 and leaves both pending moves
\* empty.
C2_ResolutionStep == []C2_Guard /\ [][C2_Step]_vars

\* a resolution has happened in a session that goes on
C2_Witness ==
  \E id \in Sessions :
    /\ games[id].turn >= 2 /\ games[id].phase = "input"
    /\ games[id].moves = bothNull /\ ~isBotGame(games[id])

----------------------------------------------------------------------------
(* C3 *)

winners == {"p1", "p2", "sudden_death"}

\* C3: in every reachable state of every session, after bot follow-up and
\* timer callbacks too, phase over implies that both pending moves are empty
\* and the winner is set, and phase input implies that the winner is unset.
C3_PhaseShape ==
  \A id \in Sessions :
    /\ games[id].phase = "over" =>
         games[id].moves = bothNull /\ games[id].winner \in winners
    /\ games[id].phase = "input" => games[id].winner = "null"

----------------------------------------------------------------------------
(* C8 *)

\* C8: in every reachable state both scores are within 0..3, and a session
\* in which a score has reached 3 is in phase over.
C8_ScoreBound ==
  \A id \in Sessions :
    /\ games[id].scores.p1 \in 0..WinScore
    /\ games[id].scores.p2 \in 0..WinScore
    /\ (games[id].scores.p1 >= WinScore \/ games[id].scores.p2 >= WinScore)
         => games[id].phase = "over"

\* both scores have reached 3 in the same turn
C8_Witness ==
  \E id \in Sessions :
    /\ games[id].scores.p1 = WinScore /\ games[id].scores.p2 = WinScore
    /\ games[id].phase = "over"

----------------------------------------------------------------------------
(* C9 *)

Distances == MinDistance..MaxDistance

\* C9: in every reachable state of every session the distance is an integer
\* in 1..6, and the resolution of a turn is defined for all 16 pairs of
\* legal moves at every distance in 1..6, with a new distance in 1..6.
C9_DistanceRange ==
  /\ \A id \in Sessions : games[id].distance \in Distances
  /\ \A id \in Sessions : \A m1 \in validMoves, m2 \in validMoves, hit \in BOOLEAN :
       LET g == resolveTurn([games[id] EXCEPT !.moves = [p1 |-> m1, p2 |-> m2]], hit)
       IN g.distance \in Distances /\ g.turn = games[id].turn + 1
  /\ \A m1 \in validMoves, m2 \in validMoves, d \in Distances, hit \in BOOLEAN :
       LET o == turnOutcome(m1, m2, d, hit)
       IN /\ o.newDistance \in Distances
          /\ o.scoreP1 \in BOOLEAN /\ o.scoreP2 \in BOOLEAN
          /\ o.result # ""

\* sessions at both ends of the strip
C9_Witness ==
  \E id \in Sessions :
    /\ games[id].turn > 0
    /\ games[id].distance \in {MinDistance, MaxDistance}
    /\ games[id].lastResult # ""

----------------------------------------------------------------------------
(* C10 *)

\* what of a session is frozen once it is over
frozen(game) ==
  <<game.phase, game.turn, game.distance, game.scores, game.winner, game.lastResult>>

\* a submit, a timer expiry, a bot follow-up or an exhibition callback that
\* runs on a session that is over leaves its frozen part as it is
C10_Handlers ==
  \A id \in Sessions :
    games[id].phase = "over" =>
      /\ \A t \in tokensOf(St, id) \cup {0}, m \in MoveInputs, w \in BOOLEAN,
            bm \in validMoves, hit \in BOOLEAN :
           frozen(moveHandler(St, t, m, w, bm, hit).games[id]) = frozen(games[id])
      /\ \A hit \in BOOLEAN :
           frozen(turnTimerFired(St, id, hit).games[id]) = frozen(games[id])
      /\ \A bm \in validMoves, hit \in BOOLEAN :
           frozen(botFollowUp(St, id, bm, hit).games[id]) = frozen(games[id])
      /\ \A m1 \in validMoves, m2 \in validMoves, hit \in BOOLEAN :
           frozen(playExhibitionTurn(St, id, m1, m2, hit).games[id]) = frozen(games[id])

\* no step changes the frozen part of a session that is over, as long as the
\* session is in the registry
C10_Step ==
  \A id \in Sessions \cap DOMAIN games' :
    games[id].phase = "over" => frozen(games'[id]) = frozen(games[id])

\* C10: once the phase of a session is over it never returns to input, and
\* its turn number, distance, scores, winner and last narrative never change
\* under any later submit, timer expiry or bot callback.
C10_OverIsFrozen == []C10_Handlers /\ [][C10_Step]_vars

\* a session that is over and on which a bot follow-up has run since
C10_Witness ==
  \E id \in Sessions :
    /\ games[id].phase = "over"
    /\ games[id].moves # bothNull

----------------------------------------------------------------------------
(* C4 *)

\* the ids of the archived sessions: the rows of the games table and the
\* entries of completedGames
archivedIds ==
  DOMAIN dbGames \cup {completedGames[i].id : i \in 1..Len(completedGames)}

\* a step that creates a session (it takes the next value of the counter)
\* gives it an id that no live or archived session has
C4_Step ==
  gameIdCounter' = gameIdCounter + 1 =>
    \A id \in DOMAIN games' :
      (id \notin Sessions \/ games'[id] # games[id]) =>
        id \notin Sessions /\ id \notin archivedIds

\* C4: no session id is ever assigned twice: over any sequence of session
\* creations, completions and restarts a new session never gets the id of a
\* live or archived session, so no creation overwrites a registry entry.
C4_NoIdReuse == [][C4_Step]_vars

----------------------------------------------------------------------------
(* C5 *)

\* the token the session holds for a side
tokenOfSide(game, side) ==
  IF game.exhibition THEN game[side]
  ELSE IF side = "p1" THEN game.p1Token ELSE game.p2Token

\* no two tokens are bound to the same side of the same session, and a
\* token resolves to the session that was created with its binding
C5_OneToOne ==
  /\ \A t1 \in DOMAIN players, t2 \in DOMAIN players :
       t1 # t2 =>
         <<players[t1].gameId, players[t1].playerId>>
           # <<players[t2].gameId, players[t2].playerId>>
  /\ \A t \in DOMAIN players :
       /\ players[t].gameId \in Sessions
       /\ tokenOfSide(games[players[t].gameId], players[t].playerId) = t

\* a binding, once made, stays as it is
C5_Stable ==
  \A t \in DOMAIN players \cap DOMAIN players' :
    players'[t].gameId = players[t].gameId /\ players'[t].playerId = players[t].playerId

\* C5: the binding of a token to (session, side) is 1:1 and stable: once
\* bound it never changes, no two tokens are bound to the same (session,
\* side), and a token always resolves to the session created with its
\* binding, across pairings, practice sessions and restarts.
C5_IdentityBinding == []C5_OneToOne /\ [][C5_Stable]_vars

----------------------------------------------------------------------------
(* C6 *)

\* C6: in every kind of session the turn limit is enforced: the turn number
\* never exceeds maxTurns (30), and a session whose turn number has come to
\* maxTurns is over.
C6_TurnLimit ==
  \A id \in Sessions :
    /\ games[id].turn <= DefaultMaxTurns
    /\ games[id].turn >= DefaultMaxTurns => games[id].phase = "over"

----------------------------------------------------------------------------
(* C7 *)

\* the winner the rules of the game give for scores s1, s2 after turn t
winnerRule(s1, s2, t) ==
  IF s1 >= WinScore /\ s2 >= WinScore THEN "sudden_death"
  ELSE IF s1 >= WinScore THEN "p1"
  ELSE IF s2 >= WinScore THEN "p2"
  ELSE IF t >= DefaultMaxTurns
  THEN (IF s1 > s2 THEN "p1" ELSE IF s2 > s1 THEN "p2" ELSE "sudden_death")
  ELSE "null"

\* C7: the winner a resolution sets is decided by the first rule that
\* applies: both scores >= 3 gives sudden death; else one score >= 3 gives
\* that side; else turn >= maxTurns gives the side with the higher score, or
\* sudden death on a tie; otherwise the session stays in phase input with no
\* winner.
C7_WinnerRule ==
  \A id \in Sessions :
    games[id].phase = "input" =>
      \A m1 \in validMoves, m2 \in validMoves, hit \in BOOLEAN :
        LET g == resolveTurn([games[id] EXCEPT !.moves = [p1 |-> m1, p2 |-> m2]], hit)
            w == winnerRule(g.scores.p1, g.scores.p2, g.turn)
        IN /\ g.winner = w
           /\ g.phase = IF w = "null" THEN "input" ELSE "over"

----------------------------------------------------------------------------
(* C11 *)

\* the move of a side once the timer has expired: the one submitted, or
\* advance for a side whose move is missing
orAdvance(move) == IF move = "null" THEN "advance" ELSE move

\* C11: when the turn timer of a session expires, the session is in phase
\* input, advance is injected for exactly the sides whose move is missing,
\* a move already submitted is kept, and the turn is resolved in the same
\* step with those moves.
C11_TimerInjectsAdvance ==
  \A id \in Sessions :
    games[id].turnTimer =>
      /\ games[id].phase = "input"
      /\ \A hit \in BOOLEAN :
           LET g == games[id]
               after == turnTimerFired(St, id, hit).games[id]
               o == turnOutcome(orAdvance(g.moves.p1), orAdvance(g.moves.p2),
                                g.distance, hit)
           IN /\ after.turn = g.turn + 1
              /\ after.lastResult = o.result
              /\ after.distance = o.newDistance
              /\ after.scores.p1 = g.scores.p1 + (IF o.scoreP1 THEN 1 ELSE 0)
              /\ after.scores.p2 = g.scores.p2 + (IF o.scoreP2 THEN 1 ELSE 0)
              /\ after.moves = bothNull

\* the timer is armed on a session in which one side has submitted a move
\* other than advance and the other side has not
C11_Witness ==
  \E id \in Sessions :
    /\ games[id].turnTimer /\ games[id].turn > 0
    /\ games[id].moves.p1 = "null"
    /\ games[id].moves.p2 \in {"lunge", "parry", "retreat"}

----------------------------------------------------------------------------
(* C12 *)

\* C12: between events, every session in phase input, of any kind and from
\* the moment it is created, has its turn timer armed, and no session in
\* phase over has one.  (The model keeps one timer handle per session, as
\* the code does, so an armed timer is exactly one timer.)
C12_TimerArmed ==
  \A id \in Sessions :
    /\ games[id].phase = "input" => games[id].turnTimer
    /\ games[id].phase = "over" => ~games[id].turnTimer

----------------------------------------------------------------------------
(* C13 *)

\* the side of a bot-controlled session that a person plays
humanSideOf(game) == IF botSideOf(game) = "p1" THEN "p2" ELSE "p1"

----------------------------------------------------------------------------
(* C14 *)

\* the callers that have a waiter in the list of the session
waiting(game) == {game.moveWaiters[i] : i \in 1..Len(game.moveWaiters)}

\* no caller is in the list twice, and every waiter belongs to a caller
\* whose move for the turn in progress is pending
C14_Outstanding ==
  \A id \in Sessions :
    /\ Cardinality(waiting(games[id])) = Len(games[id].moveWaiters)
    /\ \A side \in waiting(games[id]) :
         games[id].phase = "input" /\ games[id].moves[side] # "null"

\* a blocking submit that does not complete the pair appends one waiter for
\* its caller, any other submit that is accepted appends none, and a submit
\* or a timer expiry that resolves the turn leaves the list empty
C14_Handlers ==
  \A id \in Sessions :
    /\ \A t \in clientTokens, move \in validMoves, wait \in BOOLEAN, hit \in BOOLEAN :
         accepts(St, t, id) =>
           \A bm \in moveBotChoices(St, t) :
             LET after == moveHandler(St, t, move, wait, bm, hit).games[id]
                 status == moveStatus(St, t, move, wait, bm, hit)
             IN /\ status = "blocked" <=> (wait /\ after.turn = games[id].turn)
                /\ status = "blocked" =>
                     /\ players[t].playerId \notin waiting(games[id])
                     /\ after.moveWaiters =
                          Append(games[id].moveWaiters, players[t].playerId)
                /\ status = "waiting_for_opponent" =>
                     after.moveWaiters = games[id].moveWaiters
                /\ after.turn = games[id].turn + 1 => after.moveWaiters = <<>>
    /\ \A hit \in BOOLEAN :
         timerDue(St, id) => turnTimerFired(St, id, hit).games[id].moveWaiters = <<>>

\* a waiter leaves the list only when its turn is resolved, and then all of
\* them do - or when the process dies and its callers with it
C14_Step ==
  \A id \in Sessions \cap DOMAIN games' :
    \/ /\ games'[id].turn = games[id].turn
       /\ \A i \in 1..Len(games[id].moveWaiters) :
            /\ i <= Len(games'[id].moveWaiters)
            /\ games'[id].moveWaiters[i] = games[id].moveWaiters[i]
    \/ /\ games'[id].turn = games[id].turn + 1
       /\ games'[id].moveWaiters = <<>>
    \/ \E completed \in completedOrders(dbGames) : St' = loadDataFromDB(St, completed)

\* C14: a blocking submit that does not complete the move pair registers
\* one waiter for its caller; the waiter is invoked once, at the resolution
\* of the same turn by the opponent's move or by the timer, and is not in
\* the list afterwards; a caller never has two waiters outstanding.
C14_Waiters == [](C14_Outstanding /\ C14_Handlers) /\ [][C14_Step]_vars

\* a waiter is outstanding in a session that has resolved turns before, so
\* that earlier waiters have been invoked
C14_Witness ==
  \E id \in Sessions :
    /\ games[id].moveWaiters # <<>>
    /\ games[id].turn > 1
    /\ timerDue(St, id)

----------------------------------------------------------------------------
(* Notions the properties of the queue share *)

\* (displayName, originKey) of a queue entry
pairOf(entry) == <<entry.name, entry.ip>>

\* the tokens of the entries of a queue
queued(q) == {q[i].token : i \in 1..Len(q)}

\* the queue as a join finds it once the stale entries are gone
purgedQueue(S) == purgeStale(S.queue, S.dbQueue, S.now)[1]

\* the id matchPlayers gives the session it creates in state S
newId(S) == gameId("g", S.gameIdCounter)

\* the requests POST /api/join is tried with in every reachable state
JoinInputs == Names \X Ips \X BOOLEAN

----------------------------------------------------------------------------
(* C15 *)

\* C15: a session created by a join pairs two distinct tokens, the joiner's
\* and that of a queue entry whose (name, ip) pair differs from the
\* joiner's; a joiner whose pair equals that of every queued entry creates
\* no session and is appended to the queue.
C15_NoSelfMatch ==
  \A req \in JoinInputs :
    LET T == joinHandler(St, req[1], req[2], req[3])
        q == purgedQueue(St)
    IN /\ T.games # games =>
            /\ DOMAIN T.games = DOMAIN games \cup {newId(St)}
            /\ newId(St) \notin DOMAIN games
            /\ T.games[newId(St)].p1Token # T.games[newId(St)].p2Token
            /\ T.games[newId(St)].p2Token = genToken(St)
            /\ \E i \in 1..Len(q) :
                 /\ q[i].token = T.games[newId(St)].p1Token
                 /\ pairOf(q[i]) # <<req[1], req[2]>>
       /\ (\A i \in 1..Len(q) : pairOf(q[i]) = <<req[1], req[2]>>) =>
            /\ T.games = games
            /\ T.players = players
            /\ T.queue = Append(q, [token |-> genToken(St), name |-> req[1],
                                    ip |-> req[2], timestamp |-> now])

\* two joiners of the same name and different origins have been paired
C15_Witness ==
  \E id \in Sessions :
    /\ games[id].p1Token # 0 /\ games[id].p2Token # 0
    /\ games[id].p1Name = games[id].p2Name

----------------------------------------------------------------------------
(* C16 *)

\* the positions of the entries of q a joiner with this pair may be paired
\* with
eligible(q, pair) == {i \in 1..Len(q) : pairOf(q[i]) # pair}

\* q without its k-th entry, the others in their order
without(q, k) == [j \in 1..(Len(q) - 1) |-> IF j < k THEN q[j] ELSE q[j + 1]]

\* the queue is in the order of enqueueing
C16_Fifo ==
  \A i, j \in 1..Len(queue) :
    i < j => /\ queue[i].timestamp <= queue[j].timestamp
             /\ queue[i].token < queue[j].token

\* C16: the opponent a join chooses is the earliest-enqueued entry whose
\* (name, ip) pair differs from the joiner's - the same name with another
\* ip is eligible - and the entries ahead of it and behind it stay in the
\* queue in their order.
C16_EarliestEligible ==
  /\ C16_Fifo
  /\ \A req \in JoinInputs :
       LET T == joinHandler(St, req[1], req[2], req[3])
           q == purgedQueue(St)
           hits == eligible(q, <<req[1], req[2]>>)
       IN hits # {} =>
            \E k \in hits :
              /\ \A i \in hits : k <= i
              /\ newId(St) \in DOMAIN T.games
              /\ T.games[newId(St)].p1Token = q[k].token
              /\ T.players[q[k].token].gameId = newId(St)
              /\ T.queue = without(q, k)

\* the head of the queue has been paired and an entry that joined after it
\* and before the joiner is still queued
C16_Witness ==
  \E id \in Sessions : \E i \in 1..Len(queue) :
    /\ games[id].p1Token # 0
    /\ games[id].p1Token < queue[i].token
    /\ queue[i].token < games[id].p2Token

----------------------------------------------------------------------------
(* C17 *)

\* the entry is older than the queue timeout at time t
stale(entry, t) == t - entry.timestamp > QUEUE_TIMEOUT_MS

\* the tokens that have a row in the table queue_entries
rowTokens(dbq) == {dbq[i].token : i \in 1..Len(dbq)}

\* C17: a join removes every queue entry whose age exceeds the queue
\* timeout and deletes its row, and removes no other entry unpaired; no
\* stale entry is left in the queue, and the entry the joiner is paired
\* with is never a stale one.
C17_PurgeOnJoin ==
  \A req \in JoinInputs :
    LET T == joinHandler(St, req[1], req[2], req[3])
    IN /\ \A i \in 1..Len(queue) :
            stale(queue[i], now) =>
              /\ queue[i].token \notin queued(T.queue)
              /\ queue[i].token \notin rowTokens(T.dbQueue)
              /\ queue[i].token \notin DOMAIN T.players
       /\ \A i \in 1..Len(queue) :
            ~stale(queue[i], now) =>
              \/ queue[i].token \in queued(T.queue) \cap rowTokens(T.dbQueue)
              \/ queue[i].token \in DOMAIN T.players
       /\ \A j \in 1..Len(T.queue) : ~stale(T.queue[j], now)

\* two entries of the queue are stale and a join can still arrive
C17_Witness ==
  /\ tokenCounter <= MaxTokens
  /\ \E i, j \in 1..Len(queue) :
       i # j /\ stale(queue[i], now) /\ stale(queue[j], now)

----------------------------------------------------------------------------
(* C18 *)

\* the session is as a pairing creates it, for the waiting entry and the
\* joiner's token and name
freshPairing(game, entry, token, name) ==
  /\ game.phase = "input" /\ game.turn = 0 /\ game.distance = 4
  /\ game.scores = [p1 |-> 0, p2 |-> 0]
  /\ game.moves = bothNull /\ game.winner = "null"
  /\ game.p1Token = entry.token /\ game.p1Name = entry.name
  /\ game.p2Token = token /\ game.p2Name = name

\* C18: a join that pairs takes exactly the chosen entry out of the queue
\* (and out of the table), does not enqueue the joiner, and creates exactly
\* one session: phase input, turn 0, distance 4, scores 0-0, no pending
\* move, the waiting entry as p1 and the joiner as p2, both tokens bound to
\* it and neither of them in the queue.
C18_Pairing ==
  \A req \in JoinInputs :
    LET T == joinHandler(St, req[1], req[2], req[3])
        q == purgedQueue(St)
        id == newId(St)
        token == genToken(St)
    IN T.games # games =>
         /\ id \notin DOMAIN games
         /\ DOMAIN T.games = DOMAIN games \cup {id}
         /\ \A other \in DOMAIN games : T.games[other] = games[other]
         /\ \E k \in 1..Len(q) :
              /\ freshPairing(T.games[id], q[k], token, req[1])
              /\ T.queue = without(q, k)
              /\ DOMAIN T.players = DOMAIN players \cup {q[k].token, token}
              /\ T.players[q[k].token].gameId = id
              /\ T.players[q[k].token].playerId = "p1"
              /\ T.players[token].gameId = id
              /\ T.players[token].playerId = "p2"
              /\ {q[k].token, token} \cap queued(T.queue) = {}
              /\ {q[k].token, token} \cap rowTokens(T.dbQueue) = {}

\* a session created by pairing two joiners of different names, the first
\* bound to p1 and the second to p2, none of them in the queue
C18_Witness ==
  \E id \in Sessions :
    /\ games[id].p1Name # games[id].p2Name
    /\ {games[id].p1Token, games[id].p2Token} \subseteq DOMAIN players
    /\ players[games[id].p1Token].playerId = "p1"
    /\ players[games[id].p2Token].playerId = "p2"
    /\ games[id].p1Token < games[id].p2Token
    /\ {games[id].p1Token, games[id].p2Token} \cap queued(queue) = {}

----------------------------------------------------------------------------
(* C19 *)

\* what a run of the poll of each blocking joiner answers: matched only
\* when its token is bound to a session, timeout only when its entry is out
\* of the queue and its token unbound, nothing while its entry is queued -
\* whatever has happened to other entries - and an answer ends the poll
C19_Answers ==
  \A token \in joinPolls :
    LET answer == joinPollAnswer(St, token)
        T == joinPoll(St, token)
    IN /\ answer = "matched" =>
            /\ token \in DOMAIN players
            /\ players[token].gameId \in Sessions
            /\ token \notin queued(queue)
       /\ answer = "timeout" =>
            token \notin queued(queue) /\ token \notin DOMAIN players
       /\ token \in queued(queue) => answer = "none" /\ T = St
       /\ answer # "none" => token \notin T.joinPolls
       /\ T.joinPolls \subseteq joinPolls

\* a poll starts only for the token the join has just handed out and
\* queued, and ends only by its own answer or with the process
C19_Step ==
  /\ \A token \in joinPolls' \ joinPolls :
       token = genToken(St) /\ token \in queued(queue')
  /\ \A token \in joinPolls \ joinPolls' :
       \/ joinPollAnswer(St, token) # "none" /\ St' = joinPoll(St, token)
       \/ \E completed \in completedOrders(dbGames) : St' = loadDataFromDB(St, completed)
  /\ tokenCounter' >= tokenCounter

\* C19: a blocking joiner that was queued is answered at most once, with
\* matched only after its own token has been bound to a session, with
\* timeout only after its own entry has left the queue unpaired; pairings
\* and evictions of other entries never wake it.
C19_BlockingJoin == []C19_Answers /\ [][C19_Step]_vars

\* of two blocking joiners one has been paired and is about to be answered,
\* the other is still queued and stays blocked
C19_Witness ==
  \E t, u \in joinPolls :
    /\ joinPollAnswer(St, t) = "matched"
    /\ u \in queued(queue)
    /\ joinPollAnswer(St, u) = "none"

----------------------------------------------------------------------------
(* C20 *)

\* the entry of the token is in the queue and older than the queue timeout
overdue(token) ==
  \E i \in 1..Len(queue) : queue[i].token = token /\ stale(queue[i], now)

\* C20: every queue entry is eventually removed from the queue - paired, or
\* evicted once its age exceeds the queue timeout - and its blocking caller
\* is then answered, provided only that time passes and the timers fire;
\* no further join is assumed.  Here: an entry that has outlived the
\* timeout leaves the queue, and the poll of its caller ends.
C20_EntryLeaves ==
  \A token \in 1..MaxTokens :
    overdue(token) ~> (token \notin queued(queue) /\ token \notin joinPolls)

----------------------------------------------------------------------------
(* C21 *)

\* the game a restart loads from the row saveGameToDB writes for the game
\* in state S
reloaded(S, game) == loadGameFromDB(saveGameToDB(S.dbGames, game, S.now)[game.id])

\* the GameSession fields of a game: what a round trip has to keep
sessionFields(game) ==
  [ id |-> game.id, phase |-> game.phase, scores |-> game.scores,
    distance |-> game.distance, turn |-> game.turn, moves |-> game.moves,
    maxTurns |-> game.maxTurns,
    p1Name |-> game.p1Name, p2Name |-> game.p2Name,
    p1Token |-> game.p1Token, p2Token |-> game.p2Token,
    p1 |-> game.p1, p2 |-> game.p2,
    botDifficulty |-> game.botDifficulty, botSide |-> game.botSide,
    exhibition |-> game.exhibition,
    botP1Difficulty |-> game.botP1Difficulty,
    botP2Difficulty |-> game.botP2Difficulty ]

\* C21: round trip - the session loaded from the snapshot that save writes
\* of a session has the same id, phase, scores, distance, turn number and
\* pending moves, and the same maxTurns, participants, tokens and bot
\* control.
C21_RoundTrip ==
  \A id \in Sessions :
    sessionFields(reloaded(St, games[id])) = sessionFields(games[id])

----------------------------------------------------------------------------
(* C22 *)

\* the tokens a row of the table games holds, with the side of each
rowBindings(row) ==
  {<<row.state_json.p1Token, "p1">>, <<row.state_json.p2Token, "p2">>}
  \cup (IF row.state_json.exhibition
        THEN {<<row.state_json.p1, "p1">>, <<row.state_json.p2, "p2">>} ELSE {})

\* the ids of the archive list
archived(completed) == {completed[i].id : i \in 1..Len(completed)}

\* C22: after a restart the registry holds exactly the persisted sessions
\* whose phase is not over, each as its row has it, with its tokens bound
\* to it and its turn timer armed; a session that was over is in the
\* archive list only (the list holds the sessions that were over, as many
\* as its bound allows), and its tokens are bound to no live session.
C22_Restart ==
  \A completed \in completedOrders(dbGames) :
    LET T == loadDataFromDB(St, completed)
    IN /\ DOMAIN T.games = {id \in DOMAIN dbGames : dbGames[id].phase # "over"}
       /\ \A id \in DOMAIN T.games :
            /\ T.games[id].phase = dbGames[id].phase
            /\ T.games[id].turn = dbGames[id].turn
            /\ T.games[id].scores = dbGames[id].state_json.scores
            /\ T.games[id].turnTimer
            /\ \A b \in rowBindings(dbGames[id]) :
                 b[1] # 0 =>
                   /\ b[1] \in DOMAIN T.players
                   /\ T.players[b[1]].gameId = id
                   /\ T.players[b[1]].playerId = b[2]
       /\ \A t \in DOMAIN T.players : T.players[t].gameId \in DOMAIN T.games
       /\ \A id \in DOMAIN dbGames :
            dbGames[id].phase = "over" =>
              /\ id \notin DOMAIN T.games
              /\ \A b \in rowBindings(dbGames[id]) : b[1] \notin DOMAIN T.players
       /\ archived(T.completedGames) \subseteq {id \in DOMAIN dbGames : dbGames[id].phase = "over"}
       /\ Len(T.completedGames) =
            Min(ArchiveLimit, Cardinality({id \in DOMAIN dbGames : dbGames[id].phase = "over"}))

\* a restart has dropped a session that was over from the registry, and a
\* session that is not over is live with its timer armed
C22_Witness ==
  /\ \E id \in DOMAIN dbGames : dbGames[id].phase = "over" /\ id \notin Sessions
  /\ \E id \in Sessions :
       games[id].phase = "input" /\ games[id].turnTimer /\ tokensOf(St, id) # {}

----------------------------------------------------------------------------
(* C23 *)

\* the place of the row of the token in the table queue_entries
rowOf(dbq, token) == CHOOSE i \in 1..Len(dbq) : dbq[i].token = token

\* C23: after a restart the queue holds exactly the persisted entries
\* younger than the queue timeout, each as its row has it, in enqueue
\* order; the older rows are not loaded and are deleted from the table.
C23_QueueRestart ==
  \A completed \in completedOrders(dbGames) :
    LET T == loadDataFromDB(St, completed)
        young == {i \in 1..Len(dbQueue) : now - dbQueue[i].created_at < QUEUE_TIMEOUT_MS}
    IN /\ queued(T.queue) = {dbQueue[i].token : i \in young}
       /\ Len(T.queue) = Cardinality(young)
       /\ \A i \in 1..Len(T.queue) :
            LET row == dbQueue[rowOf(dbQueue, T.queue[i].token)]
            IN /\ T.queue[i].name = row.name
               /\ T.queue[i].ip = row.ip
               /\ T.queue[i].timestamp = row.created_at
       /\ \A i, j \in 1..Len(T.queue) :
            i < j => /\ rowOf(dbQueue, T.queue[i].token) < rowOf(dbQueue, T.queue[j].token)
                     /\ T.queue[i].timestamp <= T.queue[j].timestamp
       /\ \A t, u \in queued(T.queue) \cap queued(queue) :
            LET pos(q, x) == CHOOSE i \in 1..Len(q) : q[i].token = x
            IN pos(queue, t) < pos(queue, u) => pos(T.queue, t) < pos(T.queue, u)
       /\ rowTokens(T.dbQueue) = {dbQueue[i].token : i \in young}
       /\ \A i \in 1..Len(T.dbQueue) :
            now - T.dbQueue[i].created_at < QUEUE_TIMEOUT_MS

\* the table holds a row as old as the timeout and two younger rows: a
\* restart now loads the two and deletes the first
C23_Witness ==
  /\ \E i \in 1..Len(dbQueue) : now - dbQueue[i].created_at >= QUEUE_TIMEOUT_MS
  /\ \E i, j \in 1..Len(dbQueue) :
       /\ i < j
       /\ now - dbQueue[i].created_at < QUEUE_TIMEOUT_MS
       /\ now - dbQueue[j].created_at < QUEUE_TIMEOUT_MS
  /\ \E completed \in completedOrders(dbGames) :
       Len(loadDataFromDB(St, completed).queue) = 2

----------------------------------------------------------------------------
(* C24 *)

\* the entries of the archive list
summaries(completed) == {completed[i] : i \in 1..Len(completed)}

\* the list never holds more than its bound
C24_Bound == Len(completedGames) <= ArchiveLimit

\* an entry that leaves the list is one with the oldest completion time
C24_Step ==
  \A gone \in summaries(completedGames) \ summaries(completedGames') :
    \A other \in summaries(completedGames) : gone.timestamp <= other.timestamp

\* C24: the archive of terminated session summaries never holds more than
\* 100 entries, and an entry dropped to make room is the one with the
\* oldest completion time, also when the list was rebuilt from the table at
\* a restart.
C24_OldestDropped == []C24_Bound /\ [][C24_Step]_vars

----------------------------------------------------------------------------
(* C25 *)

\* the table games without the row of the id
withoutRow(db, id) == [i \in DOMAIN db \ {id} |-> db[i]]

\* the tables a save of the session can find: with a row of the session
\* from an earlier save, or without one
tablesFor(id) == {dbGames, withoutRow(dbGames, id)}

\* C25: save is idempotent - saving the same unchanged session twice leaves
\* one record for its id, the one the first save left but for the time of
\* the save, and a reload after two saves yields the same session as a
\* reload after one save; the other records are untouched.
C25_SaveIdempotent ==
  \A id \in Sessions, later \in {now, now + TickMs} :
    \A db \in tablesFor(id) :
      LET once == saveGameToDB(db, games[id], now)
          twice == saveGameToDB(once, games[id], later)
      IN /\ DOMAIN twice = DOMAIN once
         /\ DOMAIN once = DOMAIN db \cup {id}
         /\ twice[id] = [once[id] EXCEPT !.updated_at = later]
         /\ loadGameFromDB(twice[id]) = loadGameFromDB(once[id])
         /\ \A o \in DOMAIN db \ {id} : twice[o] = db[o]

\* a session that has resolved a turn, so that its row has been written
\* more than once, next to the row of another session
C25_Witness ==
  \E id \in Sessions :
    /\ dbGames[id].turn >= 1
    /\ dbGames[id].turn = games[id].turn
    /\ DOMAIN dbGames # {id}
    /\ saveGameToDB(dbGames, games[id], now)[id] = dbGames[id]

----------------------------------------------------------------------------
(* C26 *)

\* what the process holds in memory
memory(S) ==
  [ games |-> S.games, players |-> S.players, queue |-> S.queue,
    completedGames |-> S.completedGames, gameIdCounter |-> S.gameIdCounter,
    joinPolls |-> S.joinPolls ]

\* a failing session save changes nothing of a turn: the submission and
\* the timer expiry leave in memory what they leave when the save works
C26_Turn ==
  /\ \A token \in clientTokens, move \in MoveInputs, wait \in BOOLEAN :
       \A hit \in moveHitDraws(token) :
          memory(moveHandlerDown(St, token, move, wait, "advance", hit, {"games"}))
            = memory(moveHandler(St, token, move, wait, "advance", hit))
  /\ \A id \in Sessions : \A hit \in hitDraws(id) :
       games[id].turnTimer =>
         memory(turnTimerFiredDown(St, id, hit, {"games"}))
           = memory(turnTimerFired(St, id, hit))

\* a join ends with the joiner queued or paired, and an entry that has
\* left the queue is in a session, unless it was older than the timeout
C26_Join ==
  \A req \in JoinInputs, down \in SUBSET Tables :
    LET T == joinHandlerDown(St, req[1], req[2], req[3], down)
        token == genToken(St)
    IN /\ token \in queued(T.queue) \/ token \in DOMAIN T.players
       /\ \A i \in 1..Len(queue) :
            queue[i].token \notin queued(T.queue) =>
              \/ queue[i].token \in DOMAIN T.players
              \/ stale(queue[i], now)

\* C26: a failure of a persistence operation (session save, queue row
\* insert, queue row delete) never changes the in-memory outcome of the
\* operation in progress: a turn resolves, re-arms its timer and wakes its
\* waiters as without the failure; a join still queues the joiner or pairs
\* it, and no entry leaves the queue without being placed in a session.
C26_FailureKeepsOutcome == C26_Turn /\ C26_Join

----------------------------------------------------------------------------
(* C27 *)

\* the submission is one the handler has to reject: unknown token or
\* session, session over, a move of the caller pending, or a move that is
\* not one of the four
rejected(S, token, move) ==
  \/ token \notin DOMAIN S.players
  \/ S.players[token].gameId \notin DOMAIN S.games
  \/ LET game == S.games[S.players[token].gameId]
     IN \/ game.phase = "over"
        \/ game.moves[S.players[token].playerId] # "null"
        \/ move \notin validMoves

\* C27: a rejected move submission changes nothing - sessions (phase,
\* turn, distance, scores, pending moves, timer, waiters), queue, bindings
\* and tables are as before; a second submission of a side in one turn
\* does not replace its first move.
C27_RejectionChangesNothing ==
  \A token \in 0..tokenCounter, move \in MoveInputs \cup {""}, wait \in BOOLEAN :
    \A bm \in validMoves, hit \in BOOLEAN :
      rejected(St, token, move) =>
        /\ moveHandler(St, token, move, wait, bm, hit) = St
        /\ moveStatus(St, token, move, wait, bm, hit) \in {"error", "game_over"}

\* a side has a move pending in a session whose timer runs and where a
\* caller is blocked: a second submission of that side is rejected
C27_Witness ==
  \E token \in DOMAIN players :
    /\ players[token].gameId \in Sessions
    /\ LET game == games[players[token].gameId]
       IN /\ game.phase = "input"
          /\ game.moves[players[token].playerId] = "lunge"
          /\ game.turnTimer
          /\ game.moveWaiters # <<>>
          /\ game.turn >= 1
    /\ rejected(St, token, "parry")

----------------------------------------------------------------------------
(* C28 *)

\* the state of a session: phase, turn, distance, scores, pending moves,
\* winner, timer and waiters (all fields of the game) and its bound tokens
sessionState(S, id) ==
  [ game |-> S.games[id],
    bound |-> {<<t, S.players[t].playerId>> : t \in tokensOf(S, id)} ]

\* the state T has every session of the registry but `concerned` as it is
othersKept(T, concerned) ==
  \A id \in Sessions \ concerned :
    id \in DOMAIN T.games /\ sessionState(T, id) = sessionState(St, id)

\* a submission, a timer expiry, a bot move or an exhibition turn of one
\* session leaves the others as they are
C28_Play ==
  /\ \A token \in clientTokens \cup {0}, move \in MoveInputs, wait \in BOOLEAN :
       \A bm \in validMoves, hit \in BOOLEAN :
          othersKept(moveHandler(St, token, move, wait, bm, hit), boundGame(token))
  /\ \A id \in Sessions : \A hit \in BOOLEAN :
       games[id].turnTimer => othersKept(turnTimerFired(St, id, hit), {id})
  /\ \A id \in Sessions : \A bm \in validMoves, hit \in BOOLEAN :
       games[id].botTimers > 0 => othersKept(botFollowUp(St, id, bm, hit), {id})
  /\ \A id \in Sessions : \A m1 \in validMoves, m2 \in validMoves, hit \in BOOLEAN :
       games[id].exTimer => othersKept(playExhibitionTurn(St, id, m1, m2, hit), {id})

\* the creation of a session leaves every session there is as it is
C28_Creation ==
  /\ \A req \in JoinInputs : othersKept(joinHandler(St, req[1], req[2], req[3]), {})
  /\ \A difficulty \in Difficulties, name \in Names :
       othersKept(practiceHandler(St, difficulty, name), {})
  /\ \A d1 \in Difficulties \cup {""}, d2 \in Difficulties \cup {""} :
       othersKept(exhibitionHandler(St, d1, d2), {})

\* C28: sessions are isolated - a move submission, timer expiry, bot move
\* or session creation concerning one session leaves the state of every
\* other session (phase, turn, distance, scores, pending moves, winner,
\* timer, waiters, bound tokens) unchanged.
C28_Isolated == C28_Play /\ C28_Creation

----------------------------------------------------------------------------
(* C29 *)

\* the ways the pending moves of a session can be completed by the event
\* that resolves its turn (a submission, the bot, the timer, an exhibition
\* turn): a move that is pending stays
completions(game) ==
  {m \in validMoves \X validMoves :
     /\ game.moves.p1 # "null" => m[1] = game.moves.p1
     /\ game.moves.p2 # "null" => m[2] = game.moves.p2}

\* the state in which resolveIfReady notifies, when it resolves the turn
\* of the session with the moves m
notification(id, m, hit) ==
  notifiedAt(withMoves(St, id, m[1], m[2]), id,
             resolveTurn([games[id] EXCEPT !.turnTimer = FALSE,
                                           !.moves = [p1 |-> m[1], p2 |-> m[2]]], hit))

\* C29: within one session the side effects of turn N complete before
\* turn N+1 begins - when the waiters and subscribers are notified of the
\* resolution of turn N, the saved snapshot reflects turn N and the timer
\* is re-armed (or stays cancelled if the session is over), no move of
\* turn N+1 has been accepted, and the event resolves no further turn.
C29_Sequential ==
  \A id \in Sessions :
    games[id].phase = "input" =>
      \A m \in completions(games[id]), hit \in BOOLEAN :
        LET N == notification(id, m, hit)
            T == resolveIfReady(withMoves(St, id, m[1], m[2]), id, hit)
            game == N.games[id]
            row == N.dbGames[id]
        IN /\ game.turn = games[id].turn + 1
           /\ row.turn = game.turn
           /\ row.phase = game.phase
           /\ row.winner = game.winner
           /\ row.state_json.scores = game.scores
           /\ row.state_json.distance = game.distance
           /\ row.state_json.moves = game.moves
           /\ game.turnTimer <=> game.phase # "over"
           /\ game.moves = bothNull
           /\ game.moveWaiters = games[id].moveWaiters
           /\ T.games[id].turn = game.turn
           /\ T.games[id].moves = bothNull
           /\ T.dbGames = N.dbGames

\* a session in its second turn or later with one move pending and its
\* caller blocked: the move of the other side resolves the turn and
\* notifies the waiter
C29_Witness ==
  \E id \in Sessions :
    /\ games[id].phase = "input"
    /\ games[id].turn >= 1
    /\ games[id].moveWaiters # <<>>
    /\ games[id].moves.p1 = "null" /\ games[id].moves.p2 # "null"
    /\ dbGames[id].turn = games[id].turn

----------------------------------------------------------------------------
(* C30 *)

\* the narrative of the double hit
doubleHit == "Both fencers lunge simultaneously at close range -> DOUBLE HIT!"

----------------------------------------------------------------------------
(* C31 *)

\* the session resolved with the moves m1 of p1 and m2 of p2
resolved(game, m1, m2, hit) ==
  resolveTurn([game EXCEPT !.moves = [p1 |-> m1, p2 |-> m2]], hit)

\* C31: when one side lunges and the other parries, at every distance in
\* 1..6, only the score of the parrying side increases, by exactly 1, the
\* score of the lunger is unchanged and the new distance is 4; whenever
\* exactly one side scores in a resolution the new distance is 4.
C31_Riposte ==
  /\ \A d \in MinDistance..MaxDistance, hit \in BOOLEAN :
       /\ LET o == turnOutcome("lunge", "parry", d, hit)
          IN ~o.scoreP1 /\ o.scoreP2 /\ o.newDistance = 4
       /\ LET o == turnOutcome("parry", "lunge", d, hit)
          IN o.scoreP1 /\ ~o.scoreP2 /\ o.newDistance = 4
       /\ \A m1 \in validMoves, m2 \in validMoves :
            LET o == turnOutcome(m1, m2, d, hit)
            IN (o.scoreP1 # o.scoreP2) => o.newDistance = 4
  /\ \A id \in Sessions : \A hit \in BOOLEAN :
       games[id].phase = "input" =>
         /\ LET after == resolved(games[id], "lunge", "parry", hit)
            IN /\ after.scores.p1 = games[id].scores.p1
               /\ after.scores.p2 = games[id].scores.p2 + 1
               /\ after.distance = 4
         /\ LET after == resolved(games[id], "parry", "lunge", hit)
            IN /\ after.scores.p1 = games[id].scores.p1 + 1
               /\ after.scores.p2 = games[id].scores.p2
               /\ after.distance = 4
         /\ \A m1 \in validMoves, m2 \in validMoves :
              LET after == resolved(games[id], m1, m2, hit)
              IN (after.scores.p1 + after.scores.p2
                    = games[id].scores.p1 + games[id].scores.p2 + 1)
                 => after.distance = 4

\* a session after a riposte of p2 on the first lunge
C31_Witness ==
  \E id \in Sessions :
    /\ games[id].lastResult = "P1 lunges -> P2 PARRIES -> RIPOSTE! P2 scores. Distance resets to 4."
    /\ games[id].scores = [p1 |-> 0, p2 |-> 1]
    /\ games[id].distance = 4

----------------------------------------------------------------------------
(* C32 *)

\* what a move adds to the distance
delta(move) ==
  IF move = "advance" THEN -1 ELSE IF move = "retreat" THEN 1 ELSE 0

\* the outcome of a lunge of one side at distance d against the move
\* `other` of the other side: scores is the score flag of the lunger,
\* otherScores that of the other side
lungeOutcome(d, other, hit, scores, otherScores, newDistance) ==
  /\ ~otherScores
  /\ d = 1 => scores
  /\ d = 2 => \/ scores
              \/ ~scores /\ newDistance = 2 + delta(other)
  /\ d = 2 => (scores <=> hit)
  /\ d >= 3 => ~scores /\ newDistance = d - 1 + delta(other)

\* C32: when exactly one side lunges and the other advances or retreats -
\* at distance 1 the lunger scores; at distance 2 either the lunger scores
\* (per the draw) or nobody scores and the new distance is 2 plus the
\* delta of the other side; at distance 3 or more nobody scores and the
\* new distance is distance - 1 + the delta of the other side, so lunge
\* against retreat at distance 3 leaves distance 3.
C32_LungeAgainstMovement ==
  /\ \A d \in MinDistance..MaxDistance, other \in {"advance", "retreat"}, hit \in BOOLEAN :
       /\ LET o == branchOutcome("lunge", other, d, hit)
          IN lungeOutcome(d, other, hit, o.scoreP1, o.scoreP2, o.newDistance)
       /\ LET o == branchOutcome(other, "lunge", d, hit)
          IN lungeOutcome(d, other, hit, o.scoreP2, o.scoreP1, o.newDistance)
  /\ turnOutcome("lunge", "retreat", 3, FALSE).newDistance = 3
  /\ \A id \in Sessions : \A other \in {"advance", "retreat"}, hit \in BOOLEAN :
       games[id].phase = "input" =>
         LET d == games[id].distance
             a == resolved(games[id], "lunge", other, hit)
             b == resolved(games[id], other, "lunge", hit)
             lungerScores == d = 1 \/ (d = 2 /\ hit)
         IN /\ a.scores.p2 = games[id].scores.p2
            /\ b.scores.p1 = games[id].scores.p1
            /\ a.scores.p1 = games[id].scores.p1 + (IF lungerScores THEN 1 ELSE 0)
            /\ b.scores.p2 = games[id].scores.p2 + (IF lungerScores THEN 1 ELSE 0)
            /\ ~lungerScores =>
                 /\ a.distance = (IF d = 2 THEN 2 ELSE d - 1) + delta(other)
                 /\ b.distance = a.distance

\* a session after a lunge of p1 at distance 2 that missed a retreating p2
C32_Witness ==
  \E id \in Sessions :
    /\ games[id].lastResult = "P1 lunges at medium range -> miss! P2 retreat."
    /\ games[id].distance = 3

----------------------------------------------------------------------------
(* C33 *)

\* clamp(n, 1, 6)
clamp(n) == IF n < 1 THEN 1 ELSE IF n > 6 THEN 6 ELSE n

Quiet == {"advance", "retreat", "parry"}

clash == "Both fencers advance -> CLASH! Distance stays at 1."

\* C33: when neither side lunges nobody scores and the new distance is
\* clamp(distance + delta(A) + delta(B), 1, 6), advance -1, retreat +1,
\* parry 0; when both advance and that result is 1 the outcome is reported
\* as a clash, so from distance 4 three turns of advance against advance
\* give the distances 2, 1, 1, the last two reported as clash.
C33_NoLunge ==
  /\ \A d \in MinDistance..MaxDistance, m1 \in Quiet, m2 \in Quiet, hit \in BOOLEAN :
       LET o == turnOutcome(m1, m2, d, hit)
       IN /\ ~o.scoreP1 /\ ~o.scoreP2
          /\ o.newDistance = clamp(d + delta(m1) + delta(m2))
          /\ (m1 = "advance" /\ m2 = "advance" /\ o.newDistance = 1) => o.result = clash
  /\ LET first == turnOutcome("advance", "advance", 4, FALSE)
         second == turnOutcome("advance", "advance", first.newDistance, FALSE)
         third == turnOutcome("advance", "advance", second.newDistance, FALSE)
     IN /\ <<first.newDistance, second.newDistance, third.newDistance>> = <<2, 1, 1>>
        /\ first.result # clash
        /\ second.result = clash /\ third.result = clash
  /\ \A id \in Sessions : \A m1 \in Quiet, m2 \in Quiet, hit \in BOOLEAN :
       games[id].phase = "input" =>
         LET after == resolved(games[id], m1, m2, hit)
         IN /\ after.scores = games[id].scores
            /\ after.distance = clamp(games[id].distance + delta(m1) + delta(m2))
            /\ (m1 = "advance" /\ m2 = "advance" /\ after.distance = 1)
                 => after.lastResult = clash

\* the session after three turns of advance against advance
C33_Witness ==
  \E id \in Sessions :
    /\ games[id].turn = 3
    /\ games[id].distance = 1
    /\ games[id].lastResult = clash
    /\ games[id].scores = [p1 |-> 0, p2 |-> 0]
    /\ dbGames[id].state_json.lastResult = clash

----------------------------------------------------------------------------
(* C34 *)

\* wsBroadcast: the state sent to a spectator of the session
spectatorView(game) == compactState(game, "spectator")

\* the lines that tell the reader of a view that he has won or lost
Personal == {[gameOver |-> "You WIN!"], [gameOver |-> "You lose."]}

\* C34: on every resolution each subscriber of the session receives one
\* update, and the view sent to a spectator is side-neutral.  Here: the
\* view wsBroadcast sends to a spectator after a resolution has no line
\* that reports a personal win or loss.
C34_SpectatorNeutral ==
  \A id \in Sessions :
    games[id].lastResult # "" =>
      \A i \in 1..Len(spectatorView(games[id])) :
        spectatorView(games[id])[i] \notin Personal

----------------------------------------------------------------------------
(* C35 *)

\* "Max games in memory: 100"
MaxGamesInMemory == 100

\* C35: the number of sessions held in the in-memory session registry
\* never exceeds 100 - terminated sessions are evicted from the registry
\* after being archived.
C35_RegistryBound == Cardinality(Sessions) <= MaxGamesInMemory

----------------------------------------------------------------------------
(* C36 *)

\* C36: turn resolution is side-symmetric - for every distance in 1..6,
\* every pair of legal moves and a fixed draw, resolving (mB, mA) gives the
\* same new distance as resolving (mA, mB) and the score flags swapped; in
\* particular when both sides lunge at distance 2 or more neither side is
\* favoured.
C36_SideSymmetric ==
  /\ \A d \in MinDistance..MaxDistance, mA \in validMoves, mB \in validMoves, hit \in BOOLEAN :
       LET o == turnOutcome(mA, mB, d, hit)
           r == turnOutcome(mB, mA, d, hit)
       IN /\ r.newDistance = o.newDistance
          /\ r.scoreP1 = o.scoreP2
          /\ r.scoreP2 = o.scoreP1
  /\ \A id \in Sessions : \A mA \in validMoves, mB \in validMoves, hit \in BOOLEAN :
       games[id].phase = "input" =>
         LET a == resolved(games[id], mA, mB, hit)
             b == resolved(games[id], mB, mA, hit)
         IN /\ b.distance = a.distance
            /\ b.scores.p1 - games[id].scores.p1 = a.scores.p2 - games[id].scores.p2
            /\ b.scores.p2 - games[id].scores.p2 = a.scores.p1 - games[id].scores.p1

----------------------------------------------------------------------------
(* C37 *)

\* every row of the table games has both pending moves empty
C37_Rows ==
  \A id \in DOMAIN dbGames : dbGames[id].state_json.moves = bothNull

\* after a restart no live session has a pending move, and a side whose
\* accepted move was pending submits again for the same turn
C37_Restart ==
  \A completed \in completedOrders(dbGames) :
    LET T == loadDataFromDB(St, completed)
    IN /\ \A id \in DOMAIN T.games : T.games[id].moves = bothNull
       /\ \A token \in clientTokens :
            \A id \in boundGame(token) :
              (games[id].phase = "input" /\ games[id].moves[players[token].playerId] # "null") =>
                /\ id \in DOMAIN T.games
                /\ T.games[id].turn = games[id].turn
                /\ \A move \in validMoves, bm \in validMoves, hit \in BOOLEAN :
                     /\ ~rejected(T, token, move)
                     /\ moveStatus(T, token, move, FALSE, bm, hit)
                          \in {"waiting_for_opponent", "resolved", "game_over"}

\* C37: every snapshot written to the durable store has both pending moves
\* empty (saves happen only at creation and right after a resolution);
\* after a restart no live session has a pending move, and a move that was
\* accepted but not resolved before the restart is discarded, leaving that
\* side free to submit again for the same turn.
C37_NoPendingMoveSaved == C37_Rows /\ C37_Restart

\* a session past its first turn in which p1 has a move pending that its
\* row does not have
C37_Witness ==
  \E id \in Sessions :
    /\ games[id].phase = "input"
    /\ games[id].turn >= 1
    /\ games[id].moves.p1 # "null"
    /\ games[id].p1Token \in clientTokens
    /\ dbGames[id].state_json.moves = bothNull
    /\ dbGames[id].turn = games[id].turn

----------------------------------------------------------------------------
(* C38 *)

\* what the durable record and the session in memory have to agree on
progress(game) ==
  [ phase |-> game.phase, turn |-> game.turn, distance |-> game.distance,
    scores |-> game.scores, winner |-> game.winner ]

\* the same of a row of the table games
rowProgress(row) ==
  [ phase |-> row.phase, turn |-> row.turn, distance |-> row.state_json.distance,
    scores |-> row.state_json.scores, winner |-> row.winner ]

\* C38: at every quiescent point (between events) and absent persistence
\* failures, the durable record of each session agrees with the session in
\* memory on phase, turn number, distance, scores and winner, so a crash
\* at any quiescent point loses no resolved turn.
C38_RecordAgrees ==
  /\ \A id \in Sessions :
       /\ id \in DOMAIN dbGames
       /\ rowProgress(dbGames[id]) = progress(games[id])
  /\ \A completed \in completedOrders(dbGames) :
       LET T == loadDataFromDB(St, completed)
       IN \A id \in Sessions :
            games[id].phase # "over" =>
              id \in DOMAIN T.games /\ progress(T.games[id]) = progress(games[id])

\* a session that has resolved turns and scored, with its record in step
C38_Witness ==
  \E id \in Sessions :
    /\ games[id].phase = "input"
    /\ games[id].turn >= 2
    /\ games[id].scores.p1 >= 1
    /\ games[id].distance # StartDistance
    /\ rowProgress(dbGames[id]) = progress(games[id])
    /\ dbGames[id].updated_at >= dbGames[id].created_at

----------------------------------------------------------------------------
(* C39 *)

\* all entries of the queue have the same name and the same address
homogeneous(q) ==
  \A i \in 1..Len(q), j \in 1..Len(q) : pairOf(q[i]) = pairOf(q[j])

\* C39: after every join operation all entries waiting in the queue share
\* the same (name, address) pair - two entries with different pairs never
\* wait in the queue together, because the later of them would have been
\* paired with an earlier one; a restart keeps it so.
C39_QueueHomogeneous ==
  /\ homogeneous(queue)
  /\ \A req \in JoinInputs : homogeneous(joinHandler(St, req[1], req[2], req[3]).queue)
  /\ \A completed \in completedOrders(dbGames) :
       homogeneous(loadDataFromDB(St, completed).queue)

\* two entries wait together, and a joiner with another name or address
\* would be paired with the first
C39_Witness ==
  /\ Len(queue) >= 2
  /\ \E req \in JoinInputs :
       /\ <<req[1], req[2]>> # pairOf(queue[1])
       /\ Len(joinHandler(St, req[1], req[2], req[3]).queue) < Len(queue)

----------------------------------------------------------------------------
(* C40 *)

\* session id is over: in the registry, or, once a restart has left it out
\* of the registry, in its row
ended(id) ==
  IF id \in Sessions THEN games[id].phase = "over"
  ELSE id \in DOMAIN dbGames /\ dbGames[id].phase = "over"

C40_PairedAndPracticeEnd ==
  (\E id \in DOMAIN dbGames : id[1] # "ex_") ~> (\A id \in DOMAIN dbGames : ended(id))

====
